---- MODULE Spec2Model ----
(***************************************************************************)
(* Model of the volumetric slicing, coordinate-mapping and prediction      *)
(* cache of the backend (src/backend/app.py and src/backend/utils).        *)
(*                                                                         *)
(* Arrays are records [shape, data]: shape is the numpy shape tuple and    *)
(* data maps every 0-based index tuple to the element.  Real numbers that  *)
(* the code handles as floats are kept exact: a world coordinate is an     *)
(* integer count of halves, a quotient is a numerator over a denominator.  *)
(***************************************************************************)
EXTENDS Integers, Sequences, FiniteSets, TLC

VARIABLES
    current_patient,            \* SESSION_STATE["current_patient"]
    pred_gen_for_this_patient,  \* SESSION_STATE["pred_gen_for_this_patient"]
    pred_can_be_displayed,      \* SESSION_STATE["pred_can_be_displayed"]
    patient_has_changed,        \* SESSION_STATE["patient_has_changed"]
    pred_seg,                   \* SESSION_STATE["pred_seg"]
    run,                        \* history: the calls since the last patient switch
    trail,                      \* history: the last calls that switched patient
    resp,                       \* the answer of the last request
    users,                      \* the rows of the table "users"
    call,                       \* arguments a pure function is applied to
    ret                         \* what the function returned for call

vars == <<current_patient, pred_gen_for_this_patient, pred_can_be_displayed,
          patient_has_changed, pred_seg, run, trail, resp, users, call, ret>>

\* the prediction cache and its history
cacheVars == <<current_patient, pred_gen_for_this_patient,
               pred_can_be_displayed, patient_has_changed, pred_seg,
               run, trail, resp>>

sessionVars == <<cacheVars, users>>

----------------------------------------------------------------------------
(* Bounds of the model                                                     *)

\* largest extent of an axis of a volume
MaxDim == 2
\* how far a slice index may lie outside the volume
MaxOver == 2
\* world coordinates range over -MaxCoord/2 .. MaxCoord/2
MaxCoord == 3
\* patient folders
NumPatients == 2
\* distinct outputs the model may give for one patient
NumSeeds == 2
\* side of the grid resize_predicted_seg brings every layer to (240 in the
\* repository, see the shapes noted in utils/gif.py)
ResizedHW == 2
\* label patterns of the test slices: 0 .. NumPatterns
NumPatterns == 3
\* largest num_slices given to get_gif_animation_params
MaxSlices == 240

----------------------------------------------------------------------------
(* Arithmetic                                                              *)

Min(a, b) == IF a <= b THEN a ELSE b
Max(a, b) == IF a >= b THEN a ELSE b
Abs(a) == IF a >= 0 THEN a ELSE -a

\* np.clip without its upper limit
NpClipLowOnly(x, lo, hi) == Max(x, lo)

\* np.clip(x, lo, hi) = minimum(maximum(x, lo), hi)
NpClip(x, lo, hi) == Min(Max(x, lo), hi)

\* a Python subscript i on an axis of n elements: IndexError outside -n..n-1,
\* a negative subscript counts from the end
IndexRaises(i, n) == i >= n \/ i < -n
PyIndex(i, n) == IF i < 0 THEN i + n ELSE i

----------------------------------------------------------------------------
(* numpy arrays                                                            *)

Idx2(shape) == (0..(shape[1] - 1)) \X (0..(shape[2] - 1))
Idx3(shape) == (0..(shape[1] - 1)) \X (0..(shape[2] - 1)) \X (0..(shape[3] - 1))
Idx4(shape) == (0..(shape[1] - 1)) \X (0..(shape[2] - 1)) \X (0..(shape[3] - 1))
                   \X (0..(shape[4] - 1))

IsEmpty(a) == \E d \in 1..Len(a.shape) : a.shape[d] = 0

\* vol[i, :, :], vol[:, i, :], vol[:, :, i] for an index i already in range
TakeAxis(vol, axis, i) ==
    CASE axis = 1 ->
           [shape |-> <<vol.shape[2], vol.shape[3]>>,
            data |-> [t \in Idx2(<<vol.shape[2], vol.shape[3]>>) |->
                          vol.data[<<i, t[1], t[2]>>]]]
      [] axis = 2 ->
           [shape |-> <<vol.shape[1], vol.shape[3]>>,
            data |-> [t \in Idx2(<<vol.shape[1], vol.shape[3]>>) |->
                          vol.data[<<t[1], i, t[2]>>]]]
      [] OTHER ->
           [shape |-> <<vol.shape[1], vol.shape[2]>>,
            data |-> [t \in Idx2(<<vol.shape[1], vol.shape[2]>>) |->
                          vol.data[<<t[1], t[2], i>>]]]

\* a clockwise quarter turn, np.rot90(m, -1): out[i, j] = m[rows-1-j, i]
Rot90Clockwise(m) ==
    [shape |-> <<m.shape[2], m.shape[1]>>,
     data |-> [t \in Idx2(<<m.shape[2], m.shape[1]>>) |->
                   m.data[<<m.shape[1] - 1 - t[2], t[1]>>]]]

\* np.rot90(m): one counter-clockwise quarter turn, out[i, j] = m[j, cols-1-i]
Rot90(m) ==
    [shape |-> <<m.shape[2], m.shape[1]>>,
     data |-> [t \in Idx2(<<m.shape[2], m.shape[1]>>) |->
                   m.data[<<t[2], m.shape[2] - 1 - t[1]>>]]]

\* cv2.resize(src, (w, h), interpolation=cv2.INTER_NEAREST) for non-empty src
\* and positive w, h: out[y, x] = src[min(floor(y*sh/h), sh-1), min(floor(x*sw/w), sw-1)]
ResizeNearest(src, w, h) ==
    [shape |-> <<h, w>>,
     data |-> [t \in Idx2(<<h, w>>) |->
                   src.data[<<Min((t[1] * src.shape[1]) \div h, src.shape[1] - 1),
                              Min((t[2] * src.shape[2]) \div w, src.shape[2] - 1)>>]]]

\* cv2.resize raises cv2.error on an empty source or an empty destination size
ResizeRaises(src, w, h) == IsEmpty(src) \/ w <= 0 \/ h <= 0

----------------------------------------------------------------------------
(* Geometry and plane extractor: utils/image_processing_helpers.py,        *)
(* utils/three_views_helpers.py                                            *)

IndexError == [err |-> "IndexError"]
Cv2Error == [err |-> "cv2.error"]

\* extract_slice_by_plane without its "Ensure shapes match" tail
MatchShapeNoResize(slice_img, slice_pred) ==
    [err |-> "none", slice_img |-> slice_img, slice_pred |-> slice_pred]

\* the "Ensure shapes match" tail of extract_slice_by_plane
MatchShape(slice_img, slice_pred) ==
    IF slice_pred.shape # slice_img.shape
    THEN IF ResizeRaises(slice_pred, slice_img.shape[2], slice_img.shape[1])
         THEN Cv2Error
         ELSE [err |-> "none", slice_img |-> slice_img,
               slice_pred |-> ResizeNearest(slice_pred, slice_img.shape[2],
                                            slice_img.shape[1])]
    ELSE [err |-> "none", slice_img |-> slice_img, slice_pred |-> slice_pred]

ExtractSliceByPlane(img, pred_vol, plane, slice_idx0) ==
    IF plane = "Axial" THEN
        LET max_idx == img.shape[3]
            slice_idx == NpClip(slice_idx0, 0, max_idx - 1)
            pred_slice_idx == NpClip(slice_idx, 0, pred_vol.shape[3] - 1)
        IN  IF IndexRaises(slice_idx, img.shape[3])
               \/ IndexRaises(pred_slice_idx, pred_vol.shape[3])
            THEN IndexError
            ELSE MatchShape(
                   TakeAxis(img, 3, PyIndex(slice_idx, img.shape[3])),
                   TakeAxis(pred_vol, 3, PyIndex(pred_slice_idx, pred_vol.shape[3])))
    ELSE IF plane = "Sagittal" THEN
        LET max_idx == img.shape[1]
            slice_idx == NpClip(slice_idx0, 0, max_idx - 1)
            pred_slice_idx == NpClip(slice_idx, 0, pred_vol.shape[1] - 1)
        IN  IF IndexRaises(slice_idx, img.shape[1])
               \/ IndexRaises(pred_slice_idx, pred_vol.shape[1])
            THEN IndexError
            ELSE MatchShape(
                   Rot90(TakeAxis(img, 1, PyIndex(slice_idx, img.shape[1]))),
                   Rot90(TakeAxis(pred_vol, 1,
                                  PyIndex(pred_slice_idx, pred_vol.shape[1]))))
    ELSE
        LET max_idx == img.shape[2]
            slice_idx == NpClip(slice_idx0, 0, max_idx - 1)
            pred_slice_idx == NpClip(slice_idx, 0, pred_vol.shape[2] - 1)
        IN  IF IndexRaises(slice_idx, img.shape[2])
               \/ IndexRaises(pred_slice_idx, pred_vol.shape[2])
            THEN IndexError
            ELSE MatchShape(
                   Rot90(TakeAxis(img, 2, PyIndex(slice_idx, img.shape[2]))),
                   Rot90(TakeAxis(pred_vol, 2,
                                  PyIndex(pred_slice_idx, pred_vol.shape[2]))))

\* voxel_coords is the triple of integers world_to_voxel returned
ExtractThreeViewSlices(img, pred_vol, voxel_coords) ==
    LET x_idx == NpClip(voxel_coords[1], 0, img.shape[1] - 1)
        y_idx == NpClip(voxel_coords[2], 0, img.shape[2] - 1)
        z_idx == NpClip(voxel_coords[3], 0, img.shape[3] - 1)
    IN  IF IndexRaises(x_idx, img.shape[1]) \/ IndexRaises(x_idx, pred_vol.shape[1])
           \/ IndexRaises(y_idx, img.shape[2]) \/ IndexRaises(y_idx, pred_vol.shape[2])
           \/ IndexRaises(z_idx, img.shape[3]) \/ IndexRaises(z_idx, pred_vol.shape[3])
        THEN IndexError
        ELSE [err |-> "none",
              sagittal_img |-> Rot90(TakeAxis(img, 1, PyIndex(x_idx, img.shape[1]))),
              sagittal_pred |->
                  Rot90(TakeAxis(pred_vol, 1, PyIndex(x_idx, pred_vol.shape[1]))),
              coronal_img |-> Rot90(TakeAxis(img, 2, PyIndex(y_idx, img.shape[2]))),
              coronal_pred |->
                  Rot90(TakeAxis(pred_vol, 2, PyIndex(y_idx, pred_vol.shape[2]))),
              axial_img |-> TakeAxis(img, 3, PyIndex(z_idx, img.shape[3])),
              axial_pred |->
                  TakeAxis(pred_vol, 3, PyIndex(z_idx, pred_vol.shape[3]))]

----------------------------------------------------------------------------
(* world_to_voxel: app.py.  A world coordinate c is held as the integer    *)
(* 2*c (coordinates are multiples of one half); np.linalg.inv is the       *)
(* adjugate over the determinant, both exact.                              *)

\* DEFAULT_WORLD_COORDS = {"x": -92.0, "y": 114.0, "z": 61.0}, in halves
DEFAULT_WORLD_COORDS == [x |-> 2 * (-92), y |-> 2 * 114, z |-> 2 * 61]

IsMatrix(m, n) == Len(m) = n /\ \A r \in 1..n : Len(m[r]) = n

Det3(m) ==
      m[1][1] * (m[2][2] * m[3][3] - m[2][3] * m[3][2])
    - m[1][2] * (m[2][1] * m[3][3] - m[2][3] * m[3][1])
    + m[1][3] * (m[2][1] * m[3][2] - m[2][2] * m[3][1])

\* m without row i and column j
Minor(m, i, j) ==
    [r \in 1..3 |-> [c \in 1..3 |->
        m[IF r < i THEN r ELSE r + 1][IF c < j THEN c ELSE c + 1]]]

Cofactor(m, i, j) ==
    (IF (i + j) % 2 = 0 THEN 1 ELSE -1) * Det3(Minor(m, i, j))

Det4(m) ==
    m[1][1] * Cofactor(m, 1, 1) + m[1][2] * Cofactor(m, 1, 2)
    + m[1][3] * Cofactor(m, 1, 3) + m[1][4] * Cofactor(m, 1, 4)

\* inverse(m) = Adjugate(m) / Det4(m)
Adjugate(m) == [i \in 1..4 |-> [j \in 1..4 |-> Cofactor(m, j, i)]]

\* a conversion that takes the floor instead
AsIntFloor(n, d) == n \div d

\* float -> int conversion of n/d (d > 0): truncation towards zero
AsInt(n, d) == IF n >= 0 THEN n \div d ELSE -((-n) \div d)

\* a quotient cut towards zero instead of rounded
NpRoundTruncates(n, d) == AsInt(n, d)

\* np.round of the quotient n/d (d > 0): to the nearest integer, a tie to the even one
NpRound(n, d) ==
    LET q == n \div d
        r == n - q * d
    IN  IF 2 * r < d THEN q
        ELSE IF 2 * r > d THEN q + 1
        ELSE IF q % 2 = 0 THEN q ELSE q + 1

\* coords.get(k, DEFAULT_WORLD_COORDS[k])
CoordsGet(coords, k) ==
    IF k \in DOMAIN coords THEN coords[k] ELSE DEFAULT_WORLD_COORDS[k]

\* the try block raises: a key of coords is missing, the affine is not a
\* square matrix or is singular (np.linalg.inv), or it is not 4x4 (dot)
WorldToVoxelRaises(affine, coords) ==
    \/ {"x", "y", "z"} \ DOMAIN coords # {}
    \/ ~IsMatrix(affine, Len(affine))
    \/ ~IsMatrix(affine, 4)
    \/ Det4(affine) = 0

WorldToVoxel(affine, coords) ==
    IF WorldToVoxelRaises(affine, coords)
    THEN <<AsInt(CoordsGet(coords, "x"), 2),
           AsInt(CoordsGet(coords, "y"), 2),
           AsInt(CoordsGet(coords, "z"), 2)>>
    ELSE LET point == <<coords["x"], coords["y"], coords["z"], 2>>  \* 2*(x, y, z, 1.0)
             det == Det4(affine)
             adj == Adjugate(affine)
             sgn == IF det > 0 THEN 1 ELSE -1
             num(i) == sgn * (adj[i][1] * point[1] + adj[i][2] * point[2]
                              + adj[i][3] * point[3] + adj[i][4] * point[4])
         IN  <<NpRound(num(1), 2 * Abs(det)),
               NpRound(num(2), 2 * Abs(det)),
               NpRound(num(3), 2 * Abs(det))>>

----------------------------------------------------------------------------
(* Prediction volume normaliser: get_prediction_volume in app.py, after    *)
(* predict_btn_click has returned pred_raw                                 *)

\* pred_raw is None
IsNone(raw) == raw.kind = "None"

\* resize_predicted_seg(pred_raw): (S, h, w, 4) -> (S, ResizedHW, ResizedHW, 4),
\* layer by layer and channel by channel
ResizePredictedSeg(raw) ==
    LET shape == <<raw.shape[1], ResizedHW, ResizedHW, raw.shape[4]>>
    IN  [shape |-> shape,
         data |-> [t \in Idx4(shape) |->
             raw.data[<<t[1],
                        Min((t[2] * raw.shape[2]) \div ResizedHW, raw.shape[2] - 1),
                        Min((t[3] * raw.shape[3]) \div ResizedHW, raw.shape[3] - 1),
                        t[4]>>]]]

\* an argmax that numbers the channels from 1
ArgMaxOneBased(a, s, i, j) ==
    CHOOSE c \in 1..a.shape[4] :
        /\ \A d \in 0..(a.shape[4] - 1) : a.data[<<s, i, j, d>>] <= a.data[<<s, i, j, c - 1>>]
        /\ \A d \in 0..(c - 2) : a.data[<<s, i, j, d>>] < a.data[<<s, i, j, c - 1>>]

\* np.argmax over the channels of one voxel: the first channel holding the maximum
ArgMax(a, s, i, j) ==
    CHOOSE c \in 0..(a.shape[4] - 1) :
        /\ \A d \in 0..(a.shape[4] - 1) : a.data[<<s, i, j, d>>] <= a.data[<<s, i, j, c>>]
        /\ \A d \in 0..(c - 1) : a.data[<<s, i, j, d>>] < a.data[<<s, i, j, c>>]

\* np.moveaxis(np.argmax(pred_resized, axis=3), 0, 2): (S, H, W, 4) -> (H, W, S)
ArgMaxMoveAxis(a) ==
    LET shape == <<a.shape[2], a.shape[3], a.shape[1]>>
    IN  [shape |-> shape,
         data |-> [t \in Idx3(shape) |-> ArgMax(a, t[3], t[1], t[2])]]

\* the "if pred_vol.shape != reference_shape" block: zeros(reference_shape) with
\* the first min(depths) layers resized; cv2.resize raises on an empty size
ResizeLayersRaises(pred_vol, reference_shape) ==
    /\ Min(pred_vol.shape[3], reference_shape[3]) > 0
    /\ ResizeRaises(TakeAxis(pred_vol, 3, 0), reference_shape[2], reference_shape[1])

\* get_prediction_volume without the resize to the reference shape
ResizeLayersSkipped(pred_vol, reference_shape) == pred_vol

ResizeLayers(pred_vol, reference_shape) ==
    LET limit == Min(pred_vol.shape[3], reference_shape[3])
        layer(z) == ResizeNearest(TakeAxis(pred_vol, 3, z),
                                  reference_shape[2], reference_shape[1])
    IN  [shape |-> reference_shape,
         data |-> [t \in Idx3(reference_shape) |->
                       IF t[3] < limit THEN layer(t[3]).data[<<t[1], t[2]>>] ELSE 0]]

NoVol == [shape |-> <<>>, data |-> <<>>]

\* lines 321-342 without the channel count test of line 324
NormalizePredictionAnyChannels(pred_raw, reference_shape) ==
    IF IsNone(pred_raw)
    THEN [err |-> "ValueError", msg |-> "Failed to generate prediction", vol |-> NoVol]
    ELSE IF Len(pred_raw.shape) # 4
    THEN [err |-> "ValueError", msg |-> "Invalid prediction shape", vol |-> NoVol]
    ELSE LET pred_vol == ArgMaxMoveAxis(ResizePredictedSeg(pred_raw))
         IN  IF pred_vol.shape # reference_shape
             THEN IF ResizeLayersRaises(pred_vol, reference_shape)
                  THEN [err |-> "cv2.error", msg |-> "resize", vol |-> NoVol]
                  ELSE [err |-> "none", msg |-> "",
                        vol |-> ResizeLayers(pred_vol, reference_shape)]
             ELSE [err |-> "none", msg |-> "", vol |-> pred_vol]

\* lines 321-342 of get_prediction_volume
NormalizePrediction(pred_raw, reference_shape) ==
    IF IsNone(pred_raw)
    THEN [err |-> "ValueError", msg |-> "Failed to generate prediction", vol |-> NoVol]
    ELSE IF Len(pred_raw.shape) # 4 \/ pred_raw.shape[4] # 4
    THEN [err |-> "ValueError", msg |-> "Invalid prediction shape", vol |-> NoVol]
    ELSE LET pred_vol == ArgMaxMoveAxis(ResizePredictedSeg(pred_raw))
         IN  IF pred_vol.shape # reference_shape
             THEN IF ResizeLayersRaises(pred_vol, reference_shape)
                  THEN [err |-> "cv2.error", msg |-> "resize", vol |-> NoVol]
                  ELSE [err |-> "none", msg |-> "",
                        vol |-> ResizeLayers(pred_vol, reference_shape)]
             ELSE [err |-> "none", msg |-> "", vol |-> pred_vol]

----------------------------------------------------------------------------
(* Inputs of the pure functions                                            *)

Planes == {"Axial", "Sagittal", "Coronal"}

Shapes3(lo) == (lo..MaxDim) \X (lo..MaxDim) \X (lo..MaxDim)

\* an image volume whose voxels are pairwise different
TestImage(shape) ==
    [shape |-> shape,
     data |-> [t \in Idx3(shape) |-> 100 * t[1] + 10 * t[2] + t[3] + 1]]

\* a label volume
TestLabels(shape) ==
    [shape |-> shape,
     data |-> [t \in Idx3(shape) |-> (1 + t[1] + 2 * t[2] + 3 * t[3]) % 4]]

\* a raw model output of the given shape: class scores per voxel
RawArray(of, seed, shape) ==
    [kind |-> "ndarray", of |-> of, shape |-> shape,
     data |-> [t \in Idx4(shape) |->
                   ((seed + t[1] + 2 * t[2] + 3 * t[3]) * (t[4] + 1) + t[4] * seed) % 5]]

RawNone(of) == [kind |-> "None", of |-> of, shape |-> <<>>, data |-> <<>>]

\* a 3-dimensional array: the channel axis is missing
RawRank3(of, seed) ==
    [kind |-> "ndarray", of |-> of, shape |-> <<seed, 1, 4>>, data |-> <<>>]

\* model outputs that fail validation
InvalidRaws(of) ==
    {RawNone(of), RawRank3(of, 1), RawArray(of, 1, <<1, 1, 1, 3>>),
     RawArray(of, 1, <<1, 1, 1, 5>>)}

NoPatient == 0

TestRaws ==
    InvalidRaws(NoPatient)
      \cup {RawArray(NoPatient, seed, <<s, h, w, 4>>) :
               seed \in 1..NumSeeds, s \in 1..(MaxDim + 1), h \in 1..MaxDim, w \in 1..MaxDim}

SliceIndexes == (-MaxOver)..(MaxDim - 1 + MaxOver)

ExtractSliceCalls ==
    [fn : {"extract_slice_by_plane"}, img : {TestImage(sh) : sh \in Shapes3(1)},
     pred_vol : {TestLabels(sh) : sh \in Shapes3(1)}, plane : Planes,
     slice_idx : SliceIndexes]

\* the prediction has the shape of the image (as get_three_views passes it) or
\* is a single voxel
ThreeViewCalls ==
    UNION {[fn : {"extract_three_view_slices"}, img : {TestImage(sh)},
            pred_vol : {TestLabels(sh), TestLabels(<<1, 1, 1>>)},
            voxel_coords : {-MaxOver, 0, MaxDim - 1, MaxDim - 1 + MaxOver}
                             \X {-MaxOver, 0, MaxDim - 1 + MaxOver}
                             \X {-MaxOver, 0, MaxDim - 1 + MaxOver}] :
           sh \in Shapes3(1)}

PredictionCalls ==
    [fn : {"get_prediction_volume"}, pred_raw : TestRaws,
     reference_shape : Shapes3(0)]

\* affines: the diagonal one of the data set (flipped x and y, shifted y), a
\* scaled and shifted one, a sheared one of determinant 3, two singular ones,
\* and three that are no 4x4 matrix (None, 3x3, 3x4)
Affines ==
    {<< <<-1, 0, 0, 0>>, <<0, -1, 0, 239>>, <<0, 0, 1, 0>>, <<0, 0, 0, 1>> >>,
     << <<2, 0, 0, 1>>, <<0, 2, 0, -1>>, <<0, 0, 2, 0>>, <<0, 0, 0, 1>> >>,
     << <<1, 1, 0, 0>>, <<-1, 2, 0, 1>>, <<0, 0, 1, 2>>, <<0, 0, 0, 1>> >>,
     << <<1, 0, 0, 0>>, <<0, 0, 0, 0>>, <<0, 0, 1, 0>>, <<0, 0, 0, 1>> >>,
     << <<1, 2, 0, 0>>, <<2, 4, 0, 0>>, <<0, 0, 1, 0>>, <<0, 0, 0, 1>> >>,
     << >>,
     << <<1, 0, 0>>, <<0, 1, 0>>, <<0, 0, 1>> >>,
     << <<1, 0, 0, 0>>, <<0, 1, 0, 0>>, <<0, 0, 1, 0>> >>}

\* world coordinates in halves; the last one is DEFAULT_WORLD_COORDS
CoordsInputs ==
    [{"x", "y", "z"} -> (-MaxCoord)..MaxCoord]
      \cup [{"x", "y"} -> {-MaxCoord, 1}] \cup [{"z"} -> {-MaxCoord, 1}]
      \cup {DEFAULT_WORLD_COORDS}

WorldToVoxelCalls == [fn : {"world_to_voxel"}, affine : Affines, coords : CoordsInputs]

NoCall == [fn |-> "none"]
NoRet == [err |-> "pending"]

----------------------------------------------------------------------------
(* The session                                                             *)

NoOut == [kind |-> "none"]

\* no request answered yet
NoResp ==
    [op |-> "none", patient |-> NoPatient, status |-> 0, error |-> "", called |-> FALSE,
     switched |-> FALSE, cached |-> FALSE, invoked |-> FALSE, raised |-> FALSE,
     src |-> NoPatient, ref |-> << >>, vol |-> NoVol, out |-> NoOut]

\* no call of get_prediction_volume yet
NoRun == [invoked |-> FALSE, again |-> FALSE, returned |-> FALSE, late |-> FALSE, vols |-> {}]

SessionInit ==
    /\ current_patient = NoPatient
    /\ pred_gen_for_this_patient = FALSE
    /\ pred_can_be_displayed = FALSE
    /\ patient_has_changed = TRUE
    /\ pred_seg = RawNone(NoPatient)
    /\ run = NoRun
    /\ trail = << >>
    /\ resp = NoResp
    /\ users = {}

----------------------------------------------------------------------------
(* The data set: patient folders, their files and volumes                  *)

Patients == 1..NumPatients

\* the suffix table of get_modality_file
KnownModalities == {"FLAIR", "T1", "T1c", "T2", "SEG"}
Suffix(modality) ==
    CASE modality = "FLAIR" -> "_flair.nii"
      [] modality = "T1" -> "_t1.nii"
      [] modality = "T1c" -> "_t1ce.nii"
      [] modality = "T2" -> "_t2.nii"
      [] modality = "SEG" -> "_seg.nii"

\* os.path.exists(<patient folder>/<patient name><suffix>): every second folder
\* holds its T1c volume compressed only and has no T2, every third has no T1c;
\* the folder after the last patient holds no volume at all
FileExists(p, suffix) ==
    CASE p > NumPatients -> FALSE
      [] suffix = "_t1ce.nii" -> p % 2 = 1 /\ p % 3 # 0
      [] suffix = "_t1ce.nii.gz" -> p % 2 = 0 /\ p % 3 # 0
      [] suffix = "_t2.nii" -> p % 2 = 1
      [] suffix = "_flair.nii.gz" -> FALSE
      [] OTHER -> TRUE

\* nib.load(file).get_fdata(): the first patient's volumes have the shape the
\* resized prediction has, but for its T2
ImageShape(p, modality) ==
    IF p = 1
    THEN IF modality = "T2" THEN <<ResizedHW, ResizedHW, 1>>
         ELSE <<ResizedHW, ResizedHW, 2>>
    ELSE <<1 + (p % 2), 1 + ((p \div 2) % 2), 1 + (p % 3)>>

Image(p, modality) ==
    [shape |-> ImageShape(p, modality),
     data |-> [t \in Idx3(ImageShape(p, modality)) |->
                   p + 2 * t[1] + 3 * t[2] + 5 * t[3]
                     + (IF modality = "FLAIR" THEN 0 ELSE 1)]]

\* the volumes on disk, loaded once
Volumes == [p \in Patients |-> [m \in KnownModalities |-> Image(p, m)]]

\* nib.load(flair_file).affine
PatientAffine(p) ==
    IF p % 3 = 1
    THEN << <<-1, 0, 0, 0>>, <<0, -1, 0, 1>>, <<0, 0, 1, 0>>, <<0, 0, 0, 1>> >>
    ELSE IF p % 3 = 2
    THEN << <<2, 0, 0, 1>>, <<0, 2, 0, -1>>, <<0, 0, 2, 0>>, <<0, 0, 0, 1>> >>
    ELSE << <<1, 0, 0, 0>>, <<0, 0, 0, 0>>, <<0, 0, 1, 0>>, <<0, 0, 0, 1>> >>

----------------------------------------------------------------------------
(* The segmentation model: utils/predict_seg.py                            *)

\* predict_segmentation cannot load the T1c or the FLAIR volume (.nii, else .nii.gz)
PredictSegmentationRaises(p) ==
    \/ ~FileExists(p, "_t1ce.nii") /\ ~FileExists(p, "_t1ce.nii.gz")
    \/ ~FileExists(p, "_flair.nii") /\ ~FileExists(p, "_flair.nii.gz")

\* model.predict raised
ModelError(p) == [kind |-> "raise", of |-> p, shape |-> <<>>, data |-> <<>>]

\* what model.predict may do for the volumes of patient p: return an array
\* (seed names one), return something that fails validation, or raise
ModelOutcomes(p) ==
    {RawArray(p, seed, <<1 + seed, 1 + (seed % 2), 1 + (seed % 2), 4>>) : seed \in 1..NumSeeds}
      \cup InvalidRaws(p) \cup {ModelError(p)}

\* the fields of SESSION_STATE
Session ==
    [current_patient |-> current_patient,
     pred_gen_for_this_patient |-> pred_gen_for_this_patient,
     pred_can_be_displayed |-> pred_can_be_displayed,
     patient_has_changed |-> patient_has_changed,
     pred_seg |-> pred_seg]

\* a token update that leaves the generated flag as it is
UpdateTokenKeepsFlag(s) ==
    [s EXCEPT !.patient_has_changed = TRUE, !.pred_can_be_displayed = FALSE]

PatientHasChangedUpdateToken(s) ==
    [s EXCEPT !.patient_has_changed = TRUE,
              !.pred_can_be_displayed = FALSE,
              !.pred_gen_for_this_patient = FALSE]

\* a prediction step that stores and marks only an output that passes validation
PredictSegmentationValidOnly(s, p, outcome) ==
    IF PredictSegmentationRaises(p) \/ outcome.kind = "raise"
    THEN [s |-> s, invoked |-> TRUE, raised |-> TRUE, value |-> s.pred_seg]
    ELSE IF IsNone(outcome) \/ Len(outcome.shape) # 4 \/ outcome.shape[4] # 4
    THEN [s |-> s, invoked |-> TRUE, raised |-> FALSE, value |-> outcome]
    ELSE [s |-> [s EXCEPT !.pred_seg = outcome,
                          !.pred_can_be_displayed = TRUE,
                          !.pred_gen_for_this_patient = TRUE],
          invoked |-> TRUE, raised |-> FALSE, value |-> outcome]

\* the prediction step, with what the model does if it is invoked
PredictSegmentation(s, p, outcome) ==
    IF PredictSegmentationRaises(p) \/ outcome.kind = "raise"
    THEN [s |-> s, invoked |-> TRUE, raised |-> TRUE, value |-> s.pred_seg]
    ELSE [s |-> [s EXCEPT !.pred_seg = outcome,
                          !.pred_can_be_displayed = TRUE,
                          !.pred_gen_for_this_patient = TRUE],
          invoked |-> TRUE, raised |-> FALSE, value |-> outcome]

\* predict_btn_click without its "Avoid redundant predictions" test
PredictBtnClickAlways(s, p, outcome) == PredictSegmentation(s, p, outcome)

PredictBtnClick(s, p, outcome) ==
    IF ~s.pred_gen_for_this_patient
    THEN PredictSegmentation(s, p, outcome)
    ELSE [s |-> s, invoked |-> FALSE, raised |-> FALSE, value |-> s.pred_seg]

\* a switch of the active patient that leaves the token as it is
SetActivePatientOnly(s, p) == [s EXCEPT !.current_patient = p]

\* lines 314-318 of get_prediction_volume: the active patient token
SetActivePatient(s, p) ==
    IF s.current_patient # p
    THEN [PatientHasChangedUpdateToken(s) EXCEPT !.current_patient = p]
    ELSE s

\* lines 321-342 of get_prediction_volume on every output of the model and every
\* shape of a volume on disk, computed once
PredictionTable ==
    [raw \in UNION {ModelOutcomes(p) : p \in Patients} \cup {RawNone(NoPatient)} |->
        [ref \in {ImageShape(p, m) : p \in Patients, m \in KnownModalities} |->
            NormalizePrediction(raw, ref)]]

\* get_prediction_volume(patient_path, reference_shape) in session s
GetPredictionVolume(s, p, reference_shape, outcome) ==
    LET click == PredictBtnClick(SetActivePatient(s, p), p, outcome)
    IN  [s |-> click.s, invoked |-> click.invoked, raised |-> click.raised,
         src |-> click.value.of,
         result |-> IF click.raised
                    THEN [err |-> "Exception", msg |-> "prediction raised", vol |-> NoVol]
                    ELSE PredictionTable[click.value][reference_shape]]

\* what the model may do during get_prediction_volume: it matters only when the
\* call reaches predict_segmentation
OutcomesFor(s, p) ==
    IF PredictBtnClick(SetActivePatient(s, p), p, ModelError(p)).invoked
    THEN ModelOutcomes(p) ELSE {ModelError(p)}

----------------------------------------------------------------------------
(* Overlay renderer, metrics engine and sweep driver:                      *)
(* utils/image_processing_helpers.py, utils/metrics_helpers.py             *)

\* the test strings int() accepts: digits, a sign, leading zeros, blanks around
IntStrings == {"0", "1", "2", "3", "4", "-1", "03", " 2 "}
\* int(selected_class) for the strings of IntStrings
IntOf(str) ==
    CASE str = "0" -> 0 [] str = "1" -> 1 [] str = "2" -> 2 [] str = "3" -> 3
      [] str = "4" -> 4 [] str = "-1" -> -1 [] str = "03" -> 3 [] str = " 2 " -> 2

\* int(selected_class) raises ValueError
FilterRaises(selected_class) == selected_class \notin {"All", "None"} \cup IntStrings

\* a filter that also keeps the labels above the selected one
FilterKeepsHigher(pred_slice, selected_class) ==
    IF selected_class = "All" THEN pred_slice
    ELSE IF selected_class = "None"
    THEN [pred_slice EXCEPT !.data = [t \in DOMAIN pred_slice.data |-> 0]]
    ELSE [pred_slice EXCEPT !.data =
              [t \in DOMAIN pred_slice.data |->
                   IF pred_slice.data[t] >= IntOf(selected_class)
                   THEN pred_slice.data[t] ELSE 0]]

FilterPredictionByClass(pred_slice, selected_class) ==
    IF selected_class = "All" THEN pred_slice
    ELSE IF selected_class = "None"
    THEN [pred_slice EXCEPT !.data = [t \in DOMAIN pred_slice.data |-> 0]]
    ELSE [pred_slice EXCEPT !.data =
              [t \in DOMAIN pred_slice.data |->
                   IF pred_slice.data[t] = IntOf(selected_class)
                   THEN pred_slice.data[t] ELSE 0]]

SliceValues(a) == {a.data[t] : t \in DOMAIN a.data}
MinOf(S) == CHOOSE x \in S : \A y \in S : x <= y
MaxOf(S) == CHOOSE x \in S : \A y \in S : x >= y

\* the value that stands for a NaN intensity
NaN == -1000

\* np.nan_to_num(slice_data): a NaN becomes 0
NanToNum(x) == IF x = NaN THEN 0 ELSE x

\* ((x - min) / (max - min + 1e-8) * 255).astype(np.uint8) for a non-empty
\* slice: the quotient lies just below the exact one, the cast cuts it
NormalizeImageSlice(slice_data) ==
    LET values == {NanToNum(x) : x \in SliceValues(slice_data)}
        lo == MinOf(values)
        range == MaxOf(values) - lo
        scaled(x) == IF range = 0 \/ x = lo THEN 0
                     ELSE IF (255 * (x - lo)) % range = 0
                     THEN (255 * (x - lo)) \div range - 1
                     ELSE (255 * (x - lo)) \div range
    IN  [slice_data EXCEPT !.data = [t \in DOMAIN slice_data.data |->
                                         scaled(NanToNum(slice_data.data[t]))]]

\* slice_data.min() of an array without elements raises ValueError
NormalizeRaises(slice_data) == IsEmpty(slice_data)

CLASS_COLOR_MAP == (1 :> "#f6a9c4") @@ (2 :> "#c58b57") @@ (3 :> "#8abed8")

\* a colormap that gives class 3 the color of class 2
ColormapSharedColor ==
    [colors |-> <<"#00000000", CLASS_COLOR_MAP[1], CLASS_COLOR_MAP[2], CLASS_COLOR_MAP[2]>>,
     boundaries |-> <<-1, 1, 3, 5, 7>>]

\* the ListedColormap and the BoundaryNorm (boundaries in halves)
CreateSegmentationColormap ==
    [colors |-> <<"#00000000", CLASS_COLOR_MAP[1], CLASS_COLOR_MAP[2], CLASS_COLOR_MAP[3]>>,
     boundaries |-> <<-1, 1, 3, 5, 7>>]

\* cmap(norm(v)): the color of the bin of v, the first or the last color outside
ColorOf(cm, v) ==
    LET bins == {i \in 1..Len(cm.colors) :
                    cm.boundaries[i] <= 2 * v /\ 2 * v < cm.boundaries[i + 1]}
    IN  IF bins # {} THEN cm.colors[CHOOSE i \in bins : TRUE]
        ELSE IF 2 * v < cm.boundaries[1] THEN cm.colors[1]
        ELSE cm.colors[Len(cm.colors)]

\* ax.imshow(np.ma.masked_where(slice_pred == 0, slice_pred), cmap, norm, alpha):
\* a masked pixel is not painted, alpha is in hundredths
MaskedLayer(slice_pred, cm, alpha) ==
    [t \in DOMAIN slice_pred.data |->
        IF slice_pred.data[t] = 0 THEN [color |-> "masked", alpha |-> 0]
        ELSE [color |-> ColorOf(cm, slice_pred.data[t]), alpha |-> alpha]]

\* the figure render_slice_with_overlay draws: the normalised base image and,
\* if some label is not 0, the mask over it
RenderSliceWithOverlay(slice_img, slice_pred) ==
    LET drawn == ~(\A t \in DOMAIN slice_pred.data : slice_pred.data[t] = 0)
    IN  [base |-> NormalizeImageSlice(slice_img),
         overlay |-> drawn,
         mask |-> slice_pred,
         layer |-> IF drawn THEN MaskedLayer(slice_pred, CreateSegmentationColormap, 75)
                   ELSE << >>]

\* round(n / d, 2) in hundredths, d > 0
Round2(n, d) == NpRound(100 * n, d)

\* metrics that cut the decimals after the second instead of rounding
MetricsTruncated(voxels, total_voxels, voxel_volume_mm3) ==
    [voxel_count |-> voxels,
     volume_mm3 |-> AsInt(100 * voxels * voxel_volume_mm3[1], voxel_volume_mm3[2]),
     volume_cm3 |-> AsInt(100 * voxels * voxel_volume_mm3[1], 1000 * voxel_volume_mm3[2]),
     percentage |-> IF total_voxels > 0 THEN AsInt(100 * voxels * 100, total_voxels)
                    ELSE 0]

\* the four values reported for a count of voxels; voxel_volume_mm3 is the
\* quotient <<numerator, denominator>>, the three rounded values are in hundredths
Metrics(voxels, total_voxels, voxel_volume_mm3) ==
    [voxel_count |-> voxels,
     volume_mm3 |-> Round2(voxels * voxel_volume_mm3[1], voxel_volume_mm3[2]),
     volume_cm3 |-> Round2(voxels * voxel_volume_mm3[1], 1000 * voxel_volume_mm3[2]),
     percentage |-> IF total_voxels > 0 THEN Round2(voxels * 100, total_voxels) ELSE 0]

CalculateClassMetrics(pred_vol, voxel_volume_mm3) ==
    [class_id \in {1, 2, 3} |->
        Metrics(Cardinality({t \in DOMAIN pred_vol.data : pred_vol.data[t] = class_id}),
                Cardinality(DOMAIN pred_vol.data), voxel_volume_mm3)]

\* a total that leaves out class 1
TotalTumorSkipsCore(pred_vol, voxel_volume_mm3) ==
    Metrics(Cardinality({t \in DOMAIN pred_vol.data : pred_vol.data[t] > 1}),
            Cardinality(DOMAIN pred_vol.data), voxel_volume_mm3)

CalculateTotalTumorMetrics(pred_vol, voxel_volume_mm3) ==
    Metrics(Cardinality({t \in DOMAIN pred_vol.data : pred_vol.data[t] > 0}),
            Cardinality(DOMAIN pred_vol.data), voxel_volume_mm3)

NoMetrics == [kind |-> "None"]

\* a lookup whose ValueError of int() is not caught
SelectedClassMetricsUncaught(class_metrics, selected_class) ==
    IF selected_class \in {"All", "None", "0"} THEN NoMetrics
    ELSE IF selected_class \notin IntStrings THEN [kind |-> "ValueError"]
    ELSE IF IntOf(selected_class) \in DOMAIN class_metrics
    THEN class_metrics[IntOf(selected_class)]
    ELSE NoMetrics

GetSelectedClassMetrics(class_metrics, selected_class) ==
    IF selected_class \in {"All", "None", "0"} THEN NoMetrics
    ELSE IF selected_class \notin IntStrings THEN NoMetrics
    ELSE IF IntOf(selected_class) \in DOMAIN class_metrics
    THEN class_metrics[IntOf(selected_class)]
    ELSE NoMetrics

\* np.prod(np.abs(np.diag(affine[:3, :3]))) as a quotient
VoxelVolume(affine) == <<Abs(affine[1][1]) * Abs(affine[2][2]) * Abs(affine[3][3]), 1>>

\* a slice count that takes every plane but Axial and Coronal for Sagittal
NumSlicesSagittalDefault(img, plane) ==
    IF plane = "Axial" THEN img.shape[3]
    ELSE IF plane = "Coronal" THEN img.shape[2]
    ELSE img.shape[1]

\* num_slices of create_slicer_function
NumSlices(img, plane) ==
    IF plane = "Axial" THEN img.shape[3]
    ELSE IF plane = "Sagittal" THEN img.shape[1]
    ELSE img.shape[2]

\* a slicer that leaves out the rotation of the Sagittal and Coronal slices
SlicerNoRotation(img, pred_vol, plane, i) ==
    LET axis == IF plane = "Axial" THEN 3 ELSE IF plane = "Sagittal" THEN 1 ELSE 2
    IN  IF IndexRaises(i, pred_vol.shape[axis]) THEN IndexError
        ELSE [err |-> "none", slice_img |-> TakeAxis(img, axis, i),
              slice_pred |-> TakeAxis(pred_vol, axis, i)]

\* slicer(i) of create_slicer_function, for i in range(num_slices)
Slicer(img, pred_vol, plane, i) ==
    IF plane = "Axial"
    THEN IF IndexRaises(i, pred_vol.shape[3]) THEN IndexError
         ELSE [err |-> "none", slice_img |-> TakeAxis(img, 3, i),
               slice_pred |-> TakeAxis(pred_vol, 3, i)]
    ELSE IF plane = "Sagittal"
    THEN IF IndexRaises(i, pred_vol.shape[1]) THEN IndexError
         ELSE [err |-> "none", slice_img |-> Rot90(TakeAxis(img, 1, i)),
               slice_pred |-> Rot90(TakeAxis(pred_vol, 1, i))]
    ELSE IF IndexRaises(i, pred_vol.shape[2]) THEN IndexError
         ELSE [err |-> "none", slice_img |-> Rot90(TakeAxis(img, 2, i)),
               slice_pred |-> Rot90(TakeAxis(pred_vol, 2, i))]

\* parameters whose stride is not raised to 1
AnimationParamsUnguarded(plane, num_slices) ==
    IF plane = "Axial"
    THEN [stride |-> num_slices \div 60, fps |-> 15]
    ELSE [stride |-> num_slices \div 100, fps |-> 13]

\* parameters with the stride of the Sagittal and Coronal planes for every plane
AnimationParamsOneStride(plane, num_slices) ==
    [stride |-> Max(1, num_slices \div 100), fps |-> IF plane = "Axial" THEN 15 ELSE 13]

GetGifAnimationParams(plane, num_slices) ==
    IF plane = "Axial"
    THEN [stride |-> Max(1, num_slices \div 60), fps |-> 15]
    ELSE [stride |-> Max(1, num_slices \div 100), fps |-> 13]

\* a range that leaves out the index after the last whole stride
SweepIndexesFloor(num_slices, stride) ==
    [k \in 1..(num_slices \div stride) |-> (k - 1) * stride]

\* range(0, num_slices, stride) as a sequence
SweepIndexes(num_slices, stride) ==
    [k \in 1..((num_slices + stride - 1) \div stride) |-> (k - 1) * stride]

\* the pair one pass of the loop of get_gif renders: slicer(idx), shapes matched
SweepPair(img, pred_vol, plane, idx) ==
    LET got == Slicer(img, pred_vol, plane, idx)
    IN  IF got.err = "none" THEN MatchShape(got.slice_img, got.slice_pred) ELSE got

\* one frame of the loop of get_gif
SweepFrame(img, pred_vol, plane, selected_class, idx) ==
    LET same == SweepPair(img, pred_vol, plane, idx)
    IN  IF same.err # "none" THEN same
        ELSE IF FilterRaises(selected_class) \/ NormalizeRaises(same.slice_img)
        THEN [err |-> "ValueError"]
        ELSE [err |-> "none", idx |-> idx,
              fig |-> RenderSliceWithOverlay(
                          same.slice_img,
                          FilterPredictionByClass(same.slice_pred, selected_class))]

\* calculate_crosshair_positions
CalculateCrosshairPositions(sagittal_shape, coronal_shape, axial_shape, x_idx, y_idx, z_idx) ==
    << <<NpClip(sagittal_shape[1] - z_idx - 1, 0, sagittal_shape[1] - 1),
         NpClip(y_idx, 0, sagittal_shape[2] - 1)>>,
       <<NpClip(coronal_shape[1] - z_idx - 1, 0, coronal_shape[1] - 1),
         NpClip(x_idx, 0, coronal_shape[2] - 1)>>,
       <<NpClip(y_idx, 0, axial_shape[1] - 1),
         NpClip(x_idx, 0, axial_shape[2] - 1)>> >>

\* a panel whose mask is drawn without the test of mask_show.count()
RenderViewAlwaysDraws(image_slice, pred_slice, crosshair_pos) ==
    [base |-> image_slice,
     overlay |-> TRUE,
     mask |-> pred_slice, crosshair |-> crosshair_pos,
     layer |-> MaskedLayer(pred_slice, CreateSegmentationColormap, 75)]

\* one panel of render_three_views: the mask is drawn if it has an unmasked label
RenderView(image_slice, pred_slice, crosshair_pos) ==
    LET drawn == Cardinality({t \in DOMAIN pred_slice.data : pred_slice.data[t] # 0}) > 0
    IN  [base |-> image_slice,
         overlay |-> drawn,
         mask |-> pred_slice, crosshair |-> crosshair_pos,
         layer |-> IF drawn THEN MaskedLayer(pred_slice, CreateSegmentationColormap, 75)
                   ELSE << >>]

----------------------------------------------------------------------------
(* The request handlers of app.py, one request at a time                   *)

\* no patient_path, the patients, and the folder without volumes
ReqPatients == 0..(NumPatients + 1)
ReqModalities == {"FLAIR", "T2"}
\* plane, slice index and class filter of a view
ReqViews == {<<"Axial", 1, "All">>, <<"Sagittal", -1, "2">>}
\* plane and class filter of a sweep
ReqSweeps == {<<"Coronal", "All">>}
ReqClasses == {"2"}
\* position and class filter of a three-view request
ReqCrosshairs == {<<DEFAULT_WORLD_COORDS, "All">>, <<[x |-> 0, y |-> 1, z |-> -3], "2">>}
ReqCoords == {crosshair[1] : crosshair \in ReqCrosshairs}

\* an answer given before get_prediction_volume is called
Early(op, p, status, error) ==
    [op |-> op, patient |-> p, status |-> status, error |-> error, called |-> FALSE,
     switched |-> FALSE, cached |-> FALSE, invoked |-> FALSE, raised |-> FALSE,
     src |-> NoPatient, ref |-> << >>, vol |-> NoVol, out |-> NoOut]

\* a missing file answered as a server error
EarlyReturnServerError(op, p, modality) ==
    IF p = NoPatient
    THEN IF op = "get_gif" THEN Early(op, p, 500, "Internal Server Error")
         ELSE Early(op, p, 400, "patient_path missing")
    ELSE IF modality \notin KnownModalities
    THEN Early(op, p, 500, "Internal Server Error")
    ELSE IF ~FileExists(p, Suffix(modality))
    THEN Early(op, p, 500, "Internal Server Error")
    ELSE NoResp

\* patient_path check (not in get_gif, where normpath(None) raises), the
\* suffix lookup and the existence test of get_modality_file
EarlyReturn(op, p, modality) ==
    IF p = NoPatient
    THEN IF op = "get_gif" THEN Early(op, p, 500, "Internal Server Error")
         ELSE Early(op, p, 400, "patient_path missing")
    ELSE IF modality \notin KnownModalities
    THEN Early(op, p, 500, "Internal Server Error")
    ELSE IF ~FileExists(p, Suffix(modality))
    THEN Early(op, p, 404, "File not found")
    ELSE NoResp

\* the answer after get_prediction_volume returned gp: its ValueError is caught
\* and reported, any other exception is not; out is the handler's payload.
\* switched and cached tell what the call found: another active patient, and a
\* prediction marked as generated
Answer(op, p, reference_shape, gp, out) ==
    [op |-> op, patient |-> p,
     status |-> IF gp.result.err # "none" \/ out.kind = "error" THEN 500 ELSE 200,
     error |-> IF gp.result.err = "ValueError" THEN gp.result.msg
               ELSE IF gp.result.err # "none" THEN "Internal Server Error"
               ELSE IF out.kind = "error" THEN out.error
               ELSE "",
     called |-> TRUE, switched |-> current_patient # p,
     cached |-> pred_gen_for_this_patient,
     invoked |-> gp.invoked, raised |-> gp.raised,
     src |-> gp.src, ref |-> reference_shape, vol |-> gp.result.vol,
     out |-> IF gp.result.err # "none" THEN NoOut ELSE out]

\* history of the calls of get_prediction_volume since the active patient changed:
\* predict_segmentation was called (invoked), called more than once (again), has
\* returned a prediction (returned), was called after it had returned one (late),
\* and the volumes the calls returned, each with its reference shape
RunAfter(p, reference_shape, gp) ==
    LET base == IF current_patient # p THEN NoRun ELSE run
    IN  [invoked |-> base.invoked \/ gp.invoked,
         again |-> base.again \/ (gp.invoked /\ base.invoked),
         returned |-> base.returned \/ (gp.invoked /\ ~gp.raised),
         late |-> base.late \/ (gp.invoked /\ base.returned),
         vols |-> IF gp.result.err = "none"
                  THEN base.vols \cup {<<reference_shape, gp.result.vol>>}
                  ELSE base.vols]

\* the last three calls that named another patient than the active one
TrailAfter(p, gp) ==
    IF current_patient # p
    THEN LET all == Append(trail, [patient |-> p, invoked |-> gp.invoked])
         IN  IF Len(all) > 3 THEN Tail(all) ELSE all
    ELSE trail

Commit(p, reference_shape, gp, answer) ==
    /\ current_patient' = gp.s.current_patient
    /\ pred_gen_for_this_patient' = gp.s.pred_gen_for_this_patient
    /\ pred_can_be_displayed' = gp.s.pred_can_be_displayed
    /\ patient_has_changed' = gp.s.patient_has_changed
    /\ pred_seg' = gp.s.pred_seg
    /\ run' = RunAfter(p, reference_shape, gp)
    /\ trail' = TrailAfter(p, gp)
    /\ resp' = answer
    /\ users' = users

Reject(answer) ==
    /\ resp' = answer
    /\ UNCHANGED <<current_patient, pred_gen_for_this_patient, pred_can_be_displayed,
                   patient_has_changed, pred_seg, run, trail, users>>

Unhandled == [kind |-> "error", error |-> "Internal Server Error"]

\* lines 446-449 of get_slice: the filter and the figure of the slice
SliceFigure(slice_img, slice_pred, selected_class) ==
    IF FilterRaises(selected_class) \/ NormalizeRaises(slice_img)
    THEN [err |-> "ValueError"]
    ELSE [err |-> "none",
          figs |-> <<RenderSliceWithOverlay(
                         slice_img, FilterPredictionByClass(slice_pred, selected_class))>>]

\* the body of get_slice after get_prediction_volume
SliceOut(img, pred_vol, plane, slice_idx, selected_class) ==
    LET got == ExtractSliceByPlane(img, pred_vol, plane, slice_idx)
        drawn == SliceFigure(got.slice_img, got.slice_pred, selected_class)
    IN  IF got.err # "none" THEN Unhandled
        ELSE IF drawn.err # "none" THEN Unhandled
        ELSE [kind |-> "image", overlay |-> drawn.figs[1].overlay]

GetSlice ==
    \E p \in ReqPatients, modality \in ReqModalities, view \in ReqViews :
        LET early == EarlyReturn("get_slice", p, modality)
            plane == view[1]
            slice_idx == view[2]
            selected_class == view[3]
        IN  /\ UNCHANGED <<call, ret>>
            /\ IF early # NoResp THEN Reject(early)
               ELSE \E outcome \in OutcomesFor(Session, p) :
                      LET img == Volumes[p][modality]
                          gp == GetPredictionVolume(Session, p, img.shape, outcome)
                      IN  Commit(p, img.shape, gp,
                                 Answer("get_slice", p, img.shape, gp,
                                        IF gp.result.err # "none" THEN NoOut
                                        ELSE SliceOut(img, gp.result.vol, plane,
                                                      slice_idx, selected_class)))

\* the body of get_analysis after get_prediction_volume
AnalysisOut(p, img, pred_vol, selected_class) ==
    LET affine == PatientAffine(p)
        class_metrics == CalculateClassMetrics(pred_vol, VoxelVolume(affine))
    IN  [kind |-> "analysis",
         total_tumor |-> CalculateTotalTumorMetrics(pred_vol, VoxelVolume(affine)),
         by_class |-> class_metrics,
         selected_class_metrics |-> GetSelectedClassMetrics(class_metrics, selected_class),
         explanation |-> IF selected_class \in {"1", "2", "3", "All"}
                         THEN selected_class ELSE "All",
         voxel_spacing_mm |-> <<Abs(affine[1][1]), Abs(affine[2][2]), Abs(affine[3][3])>>,
         image_dimensions |-> img.shape]

GetAnalysis ==
    \E p \in ReqPatients, selected_class \in ReqClasses :
        LET early == EarlyReturn("get_analysis", p, "FLAIR")
        IN  /\ UNCHANGED <<call, ret>>
            /\ IF early # NoResp THEN Reject(early)
               ELSE \E outcome \in OutcomesFor(Session, p) :
                      LET img == Volumes[p]["FLAIR"]
                          gp == GetPredictionVolume(Session, p, img.shape, outcome)
                      IN  Commit(p, img.shape, gp,
                                 Answer("get_analysis", p, img.shape, gp,
                                        IF gp.result.err # "none" THEN NoOut
                                        ELSE AnalysisOut(p, img, gp.result.vol,
                                                         selected_class)))

\* a sweep without the test of len(frames)
GifOutNoCheck(img, pred_vol, plane, selected_class) ==
    LET num_slices == NumSlices(img, plane)
        params == GetGifAnimationParams(plane, num_slices)
        idxs == SweepIndexes(num_slices, params.stride)
        frames == [k \in DOMAIN idxs |->
                       SweepFrame(img, pred_vol, plane, selected_class, idxs[k])]
    IN  IF (\E k \in DOMAIN frames : frames[k].err # "none")
           \/ (Len(idxs) > 0 /\ FilterRaises(selected_class))
        THEN Unhandled
        ELSE [kind |-> "gif", frames |-> [k \in DOMAIN frames |-> frames[k].idx],
              overlays |-> [k \in DOMAIN frames |-> frames[k].fig.overlay],
              fps |-> params.fps]

\* the body of get_gif after get_prediction_volume
GifOut(img, pred_vol, plane, selected_class) ==
    LET num_slices == NumSlices(img, plane)
        params == GetGifAnimationParams(plane, num_slices)
        idxs == SweepIndexes(num_slices, params.stride)
        frames == [k \in DOMAIN idxs |->
                       SweepFrame(img, pred_vol, plane, selected_class, idxs[k])]
    IN  IF (\E k \in DOMAIN frames : frames[k].err # "none")
           \/ (Len(idxs) > 0 /\ FilterRaises(selected_class))
        THEN Unhandled
        ELSE IF Len(frames) = 0
        THEN [kind |-> "error", error |-> "No frames generated"]
        ELSE [kind |-> "gif", frames |-> [k \in DOMAIN frames |-> frames[k].idx],
              overlays |-> [k \in DOMAIN frames |-> frames[k].fig.overlay],
              fps |-> params.fps]

GetGif ==
    \E p \in ReqPatients, modality \in ReqModalities, sweep \in ReqSweeps :
        LET early == EarlyReturn("get_gif", p, modality)
            plane == sweep[1]
            selected_class == sweep[2]
        IN  /\ UNCHANGED <<call, ret>>
            /\ IF early # NoResp THEN Reject(early)
               ELSE \E outcome \in OutcomesFor(Session, p) :
                      LET img == Volumes[p][modality]
                          gp == GetPredictionVolume(Session, p, img.shape, outcome)
                      IN  Commit(p, img.shape, gp,
                                 Answer("get_gif", p, img.shape, gp,
                                        IF gp.result.err # "none" THEN NoOut
                                        ELSE GifOut(img, gp.result.vol, plane,
                                                    selected_class)))

\* world_to_voxel(affine, coords) for every patient's affine and every requested
\* position, computed once
VoxelTable ==
    [p \in Patients |-> [coords \in ReqCoords |-> WorldToVoxel(PatientAffine(p), coords)]]

\* lines 598-624 of get_three_views: the three panels
ThreeViewFigures(img, pred_vol, voxel_coords, selected_class) ==
    LET got == ExtractThreeViewSlices(img, pred_vol, voxel_coords)
    IN  IF got.err # "none" THEN got
        ELSE IF NormalizeRaises(got.sagittal_img) \/ NormalizeRaises(got.coronal_img)
                \/ NormalizeRaises(got.axial_img) \/ FilterRaises(selected_class)
        THEN [err |-> "ValueError"]
        ELSE LET cross == CalculateCrosshairPositions(
                              got.sagittal_img.shape, got.coronal_img.shape,
                              got.axial_img.shape, voxel_coords[1], voxel_coords[2],
                              voxel_coords[3])
             IN  [err |-> "none",
                  figs |-> <<
                    RenderView(NormalizeImageSlice(got.sagittal_img),
                               FilterPredictionByClass(got.sagittal_pred, selected_class),
                               cross[1]),
                    RenderView(NormalizeImageSlice(got.coronal_img),
                               FilterPredictionByClass(got.coronal_pred, selected_class),
                               cross[2]),
                    RenderView(NormalizeImageSlice(got.axial_img),
                               FilterPredictionByClass(got.axial_pred, selected_class),
                               cross[3])>>]

\* the body of get_three_views after get_prediction_volume
ThreeViewsOut(p, img, pred_vol, coords, selected_class) ==
    LET drawn == ThreeViewFigures(img, pred_vol, VoxelTable[p][coords], selected_class)
    IN  IF drawn.err # "none" THEN Unhandled
        ELSE [kind |-> "image",
              overlays |-> [k \in 1..3 |-> drawn.figs[k].overlay],
              crosshairs |-> [k \in 1..3 |-> drawn.figs[k].crosshair]]

GetThreeViews ==
    \E p \in ReqPatients, crosshair \in ReqCrosshairs :
        LET early == EarlyReturn("get_three_views", p, "FLAIR")
            coords == crosshair[1]
            selected_class == crosshair[2]
        IN  /\ UNCHANGED <<call, ret>>
            /\ IF early # NoResp THEN Reject(early)
               ELSE \E outcome \in OutcomesFor(Session, p) :
                      LET img == Volumes[p]["FLAIR"]
                          gp == GetPredictionVolume(Session, p, img.shape, outcome)
                      IN  Commit(p, img.shape, gp,
                                 Answer("get_three_views", p, img.shape, gp,
                                        IF gp.result.err # "none" THEN NoOut
                                        ELSE ThreeViewsOut(p, img, gp.result.vol, coords,
                                                           selected_class)))

Init == SessionInit /\ call = NoCall /\ ret = NoRet
Next == GetSlice \/ GetAnalysis \/ GetGif \/ GetThreeViews
Spec == Init /\ [][Next]_vars

----------------------------------------------------------------------------
(* Specifications of the pure functions: Init draws the arguments, the     *)
(* action applies the function                                             *)

CallExtractSliceByPlane ==
    /\ call.fn = "extract_slice_by_plane" /\ ret = NoRet
    /\ ret' = ExtractSliceByPlane(call.img, call.pred_vol, call.plane, call.slice_idx)
    /\ UNCHANGED <<call, sessionVars>>

CallExtractThreeViewSlices ==
    /\ call.fn = "extract_three_view_slices" /\ ret = NoRet
    /\ ret' = ExtractThreeViewSlices(call.img, call.pred_vol, call.voxel_coords)
    /\ UNCHANGED <<call, sessionVars>>

CallWorldToVoxel ==
    /\ call.fn = "world_to_voxel" /\ ret = NoRet
    /\ ret' = [err |-> "none", voxel |-> WorldToVoxel(call.affine, call.coords)]
    /\ UNCHANGED <<call, sessionVars>>

CallNormalizePrediction ==
    /\ call.fn = "get_prediction_volume" /\ ret = NoRet
    /\ ret' = NormalizePrediction(call.pred_raw, call.reference_shape)
    /\ UNCHANGED <<call, sessionVars>>

InitSlice == SessionInit /\ call \in ExtractSliceCalls \cup ThreeViewCalls /\ ret = NoRet
NextSlice == CallExtractSliceByPlane \/ CallExtractThreeViewSlices
SpecSlice == InitSlice /\ [][NextSlice]_vars

InitVoxel == SessionInit /\ call \in WorldToVoxelCalls /\ ret = NoRet
NextVoxel == CallWorldToVoxel
SpecVoxel == InitVoxel /\ [][NextVoxel]_vars

InitPrediction == SessionInit /\ call \in PredictionCalls /\ ret = NoRet
NextPrediction == CallNormalizePrediction
SpecPrediction == InitPrediction /\ [][NextPrediction]_vars

----------------------------------------------------------------------------
(* Claims about the geometry and plane extractor (SpecSlice)               *)

\* the axis a plane slices: Axial the 3rd, Sagittal the 1st, Coronal the 2nd
PlaneAxis(plane) == IF plane = "Axial" THEN 3 ELSE IF plane = "Sagittal" THEN 1 ELSE 2

\* the in-range index nearest to i on an axis of n elements
Nearest(i, n) == IF i < 0 THEN 0 ELSE IF i > n - 1 THEN n - 1 ELSE i

\* the slice of vol at index i of the plane, written voxel by voxel: Axial is
\* vol[a, b, i]; Sagittal is vol[i, b, D-1-a]; Coronal is vol[b, i, D-1-a]
PlaneSlice(vol, plane, i) ==
    LET H == vol.shape[1]
        W == vol.shape[2]
        D == vol.shape[3]
    IN  IF plane = "Axial"
        THEN [shape |-> <<H, W>>,
              data |-> [t \in Idx2(<<H, W>>) |-> vol.data[<<t[1], t[2], i>>]]]
        ELSE IF plane = "Sagittal"
        THEN [shape |-> <<D, W>>,
              data |-> [t \in Idx2(<<D, W>>) |-> vol.data[<<i, t[2], D - 1 - t[1]>>]]]
        ELSE [shape |-> <<D, H>>,
              data |-> [t \in Idx2(<<D, H>>) |-> vol.data[<<t[2], i, D - 1 - t[1]>>]]]

SliceReturned == call.fn = "extract_slice_by_plane" /\ ret # NoRet
ThreeViewsReturned == call.fn = "extract_three_view_slices" /\ ret # NoRet

\* C6: extract_slice_by_plane returns an image slice and a prediction slice of
\* the same 2D shape, for every image, every prediction (also of another
\* shape), every plane and every index
C6_SameSliceShape ==
    SliceReturned =>
        /\ ret.err = "none"
        /\ Len(ret.slice_img.shape) = 2
        /\ ret.slice_pred.shape = ret.slice_img.shape
        /\ DOMAIN ret.slice_img.data = Idx2(ret.slice_img.shape)
        /\ DOMAIN ret.slice_pred.data = Idx2(ret.slice_img.shape)

\* a prediction whose slice on the plane had another shape than the image's
C6_Witness ==
    /\ SliceReturned /\ ret.err = "none"
    /\ call.plane = "Coronal"
    /\ call.pred_vol.shape[1] # call.img.shape[1]
    /\ call.pred_vol.shape[3] # call.img.shape[3]
    /\ ret.slice_pred.shape = ret.slice_img.shape

\* C7: an index outside [0, extent-1] never fails and gives exactly the slices
\* of the nearest in-range index; extract_three_view_slices clamps each of
\* the three voxel coordinates the same way
C7_ClampedIndex ==
    /\ SliceReturned =>
          LET axis == PlaneAxis(call.plane)
              i == Nearest(call.slice_idx, call.img.shape[axis])
              j == Nearest(i, call.pred_vol.shape[axis])
              pred == PlaneSlice(call.pred_vol, call.plane, j)
          IN  /\ ret.err = "none"
              /\ ret.slice_img = PlaneSlice(call.img, call.plane, i)
              /\ ret.slice_pred =
                    IF pred.shape = ret.slice_img.shape THEN pred
                    ELSE ResizeNearest(pred, ret.slice_img.shape[2],
                                       ret.slice_img.shape[1])
    /\ (ThreeViewsReturned /\ call.pred_vol.shape = call.img.shape) =>
          LET x == Nearest(call.voxel_coords[1], call.img.shape[1])
              y == Nearest(call.voxel_coords[2], call.img.shape[2])
              z == Nearest(call.voxel_coords[3], call.img.shape[3])
          IN  /\ ret.err = "none"
              /\ ret.sagittal_img = PlaneSlice(call.img, "Sagittal", x)
              /\ ret.sagittal_pred = PlaneSlice(call.pred_vol, "Sagittal", x)
              /\ ret.coronal_img = PlaneSlice(call.img, "Coronal", y)
              /\ ret.coronal_pred = PlaneSlice(call.pred_vol, "Coronal", y)
              /\ ret.axial_img = PlaneSlice(call.img, "Axial", z)
              /\ ret.axial_pred = PlaneSlice(call.pred_vol, "Axial", z)

\* an index above the extent was answered with the last slice
C7_Witness ==
    /\ SliceReturned /\ ret.err = "none"
    /\ call.plane = "Sagittal"
    /\ call.img.shape[1] > 1
    /\ call.slice_idx > call.img.shape[1] - 1
    /\ ret.slice_img = PlaneSlice(call.img, "Sagittal", call.img.shape[1] - 1)

\* C8: Axial selects along the 3rd axis without rotation, Sagittal along the
\* 1st and Coronal along the 2nd, both with the same quarter turn; the
\* prediction is sliced on the same axis with the same rotation
C8_AxisAndRotation ==
    (SliceReturned /\ call.slice_idx \in 0..(call.img.shape[PlaneAxis(call.plane)] - 1)) =>
        /\ ret.err = "none"
        /\ ret.slice_img = PlaneSlice(call.img, call.plane, call.slice_idx)
        /\ call.pred_vol.shape = call.img.shape =>
              ret.slice_pred = PlaneSlice(call.pred_vol, call.plane, call.slice_idx)

\* a rotated, non-square slice of an image and a prediction of one shape
C8_Witness ==
    /\ SliceReturned /\ ret.err = "none"
    /\ call.plane = "Coronal"
    /\ call.slice_idx = 1
    /\ call.img.shape[2] > 1
    /\ call.img.shape[1] # call.img.shape[3]
    /\ call.pred_vol.shape = call.img.shape
    /\ ret.slice_img.shape = <<call.img.shape[3], call.img.shape[1]>>

----------------------------------------------------------------------------
(* Claims about world_to_voxel (SpecVoxel)                                 *)

VoxelReturned == call.fn = "world_to_voxel" /\ ret # NoRet
HasXYZ(coords) == DOMAIN coords = {"x", "y", "z"}

\* row r of the product affine . v
RowDot(affine, r, v) ==
    affine[r][1] * v[1] + affine[r][2] * v[2] + affine[r][3] * v[3] + affine[r][4] * v[4]

\* a 4x4 matrix is singular when it sends some non-zero vector to zero
KernelRange == (-2)..2
IsSingular(affine) ==
    \E v \in KernelRange \X KernelRange \X KernelRange \X KernelRange :
        /\ v # <<0, 0, 0, 0>>
        /\ \A r \in 1..4 : RowDot(affine, r, v) = 0

\* the integer a real number c (held as c2 = 2c) is truncated to
Truncated(c2) ==
    CHOOSE t \in (-Abs(c2))..Abs(c2) :
        /\ 2 * Abs(t) <= Abs(c2) /\ Abs(c2) < 2 * Abs(t) + 2
        /\ t * c2 >= 0

\* C9: on a singular or otherwise invalid affine world_to_voxel returns the
\* input coordinates truncated to integers: (-92, 114, 61) for (-92.0, 114.0, 61.0)
C9_FallbackTruncates ==
    (VoxelReturned /\ HasXYZ(call.coords)
       /\ (~IsMatrix(call.affine, 4) \/ IsSingular(call.affine))) =>
        /\ ret.err = "none"
        /\ ret.voxel = <<Truncated(call.coords.x), Truncated(call.coords.y),
                         Truncated(call.coords.z)>>
        /\ call.coords = DEFAULT_WORLD_COORDS => ret.voxel = <<-92, 114, 61>>

\* a singular 4x4 affine and a negative coordinate that is no integer
C9_Witness ==
    /\ VoxelReturned /\ HasXYZ(call.coords)
    /\ IsMatrix(call.affine, 4) /\ IsSingular(call.affine)
    /\ call.coords.x < 0 /\ call.coords.x % 2 = 1
    /\ ret.voxel[1] = Truncated(call.coords.x)

\* C10: for an invertible affine world_to_voxel returns inverse(affine) applied
\* to (x, y, z, 1), each of the three components rounded to the nearest
\* integer.  N / K is that product: affine . N = K . (x, y, z, 1)
C10_RoundedInverse ==
    (VoxelReturned /\ HasXYZ(call.coords) /\ IsMatrix(call.affine, 4)
       /\ ~IsSingular(call.affine)) =>
        LET point == <<call.coords.x, call.coords.y, call.coords.z, 2>>
            K == 2 * Det4(call.affine)
            N == [i \in 1..4 |-> RowDot(Adjugate(call.affine), i, point)]
        IN  /\ K # 0
            /\ \A r \in 1..4 : 2 * RowDot(call.affine, r, N) = K * point[r]
            /\ \A i \in 1..3 : 2 * Abs(ret.voxel[i] * K - N[i]) <= Abs(K)

\* an invertible affine whose exact voxel coordinate is no integer
C10_Witness ==
    /\ VoxelReturned /\ HasXYZ(call.coords) /\ IsMatrix(call.affine, 4)
    /\ ~IsSingular(call.affine)
    /\ call.affine[1][2] # 0
    /\ RowDot(Adjugate(call.affine), 1,
              <<call.coords.x, call.coords.y, call.coords.z, 2>>)
          % (2 * Det4(call.affine)) # 0
    /\ ret.voxel[1] # 0

----------------------------------------------------------------------------
(* Claims about the prediction volume normaliser (SpecPrediction)          *)

PredictionReturned == call.fn = "get_prediction_volume" /\ ret # NoRet
IsValidRaw(raw) == ~IsNone(raw) /\ Len(raw.shape) = 4 /\ raw.shape[4] = 4
HasZero(shape) == \E d \in 1..Len(shape) : shape[d] = 0

\* C3: every volume get_prediction_volume returns has exactly the shape
\* reference_shape, whatever the spatial shape and depth of the model output
C3_ShapeIsReference ==
    (PredictionReturned /\ ret.err = "none") =>
        /\ ret.vol.shape = call.reference_shape
        /\ DOMAIN ret.vol.data = Idx3(call.reference_shape)

\* a model output deeper than the reference volume and of another layer size
C3_Witness ==
    /\ PredictionReturned /\ ret.err = "none"
    /\ ~HasZero(call.reference_shape)
    /\ call.pred_raw.shape[1] > call.reference_shape[3]
    /\ call.reference_shape[1] # ResizedHW
    /\ ret.vol.shape = call.reference_shape

\* C5: get_prediction_volume fails, instead of returning a volume, whenever
\* reference_shape has a zero in any dimension
C5_ZeroReferenceFails ==
    (PredictionReturned /\ HasZero(call.reference_shape)) => ret.err # "none"

----------------------------------------------------------------------------
(* Claims about the prediction cache and the request handlers (Spec)       *)

\* the last request reached get_prediction_volume
Called == resp.called
\* the last call of get_prediction_volume returned a volume
Returned == resp.called /\ resp.vol # NoVol
\* all predictions the calls of the run returned for one reference shape are equal
SameVolumes == \A v, w \in run.vols : v[1] = w[1] => v[2] = w[2]

\* C1, as amended: over the calls of get_prediction_volume for one patient with no
\* call for another patient in between, predict_segmentation is never called again
\* after it has returned a prediction (so it returns one at most once), and all
\* calls that return a volume for the same reference_shape return the same volume
C1_OncePerRun == ~run.late /\ SameVolumes

\* a call answered from the cache: the second or a later call of a run returns a
\* volume without calling predict_segmentation
C1_Witness ==
    /\ Returned /\ ~resp.switched /\ resp.cached /\ ~resp.invoked
    /\ run.invoked /\ ~run.again /\ run.returned

\* C1, as stated: over the calls of get_prediction_volume for one patient with no
\* call for another patient in between, the model is invoked at most once and
\* every call returns the same volume
C1_AtMostOnceSameVolume == ~run.again /\ (\A v, w \in run.vols : v[2] = w[2])

\* C2: a call of get_prediction_volume for another patient than the active one
\* calls predict_segmentation for the new patient (for each of the requests A, B,
\* A), no call returns a volume made from another patient's prediction, and a
\* prediction marked as generated is the active patient's
C2_SwitchInvalidates ==
    /\ (Called /\ resp.switched) => resp.invoked
    /\ \A i \in DOMAIN trail : trail[i].invoked
    /\ Returned => resp.src = resp.patient
    /\ pred_gen_for_this_patient => pred_seg.of = current_patient

\* requests for A, B and A again, each finding the other patient's prediction
\* cached, each calling predict_segmentation
C2_Witness ==
    /\ Len(trail) = 3
    /\ trail[1].patient = trail[3].patient /\ trail[1].patient # trail[2].patient
    /\ \A i \in 1..3 : trail[i].invoked
    /\ Returned /\ resp.switched /\ resp.cached /\ run.invoked /\ ~run.again

\* C4: when the raw prediction predict_btn_click returns is None, has not four
\* dimensions or has not four channels, get_prediction_volume returns no volume and
\* the handler answers 500 with the error's message
C4_InvalidPredictionSurfaced ==
    (Called /\ ~resp.raised /\ ~IsValidRaw(pred_seg)) =>
        /\ resp.vol = NoVol /\ resp.out = NoOut /\ resp.status = 500
        /\ resp.error = IF IsNone(pred_seg) THEN "Failed to generate prediction"
                        ELSE "Invalid prediction shape"

\* get_gif answers 500 for a prediction with three channels
C4_Witness ==
    /\ Called /\ ~resp.raised /\ resp.op = "get_gif"
    /\ ~IsNone(pred_seg) /\ Len(pred_seg.shape) = 4 /\ pred_seg.shape[4] = 3
    /\ resp.status = 500 /\ resp.error = "Invalid prediction shape"

----------------------------------------------------------------------------
(* Specification of the overlay renderer: the class filter and the three   *)
(* rendering paths, applied to drawn slices                                *)

Shapes2 == (1..MaxDim) \X (1..MaxDim)

\* a slice of labels 0..3; pattern 0 is all background
LabelSlice(shape, pattern) ==
    [shape |-> shape,
     data |-> [t \in Idx2(shape) |-> (pattern * (1 + t[1] + 2 * t[2])) % 4]]

LabelSlices == {LabelSlice(sh, pattern) : sh \in Shapes2, pattern \in 0..NumPatterns}

\* class filters a client may send; the last one is no integer
ClassFilters == {"All", "None", "0", "1", "2", "3", "abc"}

FilterCalls ==
    [fn : {"filter_prediction_by_class"}, pred_slice : LabelSlices,
     selected_class : ClassFilters]

CallFilterPredictionByClass ==
    /\ call.fn = "filter_prediction_by_class" /\ ret = NoRet
    /\ ret' = IF FilterRaises(call.selected_class) THEN [err |-> "ValueError"]
              ELSE [err |-> "none",
                    slice |-> FilterPredictionByClass(call.pred_slice, call.selected_class)]
    /\ UNCHANGED <<call, sessionVars>>

\* an image slice whose pixels are pairwise different
ImageSlice(shape) ==
    [shape |-> shape, data |-> [t \in Idx2(shape) |-> 10 * t[1] + t[2] + 1]]

\* single slice: the image slice and the prediction slice have the same shape,
\* as extract_slice_by_plane returns them
RenderSliceCalls ==
    UNION {[fn : {"render_slice"}, slice_img : {ImageSlice(sh)},
            slice_pred : {LabelSlice(sh, pattern) : pattern \in 0..NumPatterns},
            selected_class : ClassFilters] : sh \in Shapes2}

\* sweep frame: every index of the sweep axis; the prediction has the shape of
\* the image
SweepFrameCalls ==
    UNION {[fn : {"sweep_frame"}, img : {TestImage(sh)}, pred_vol : {TestLabels(sh)},
            plane : {plane}, selected_class : ClassFilters,
            idx : 0..(NumSlices(TestImage(sh), plane) - 1)] :
           sh \in Shapes3(1), plane \in Planes}

\* three views: voxel positions in and beside the volume
RenderThreeViewsCalls ==
    UNION {[fn : {"render_three_views"}, img : {TestImage(sh)},
            pred_vol : {TestLabels(sh)},
            voxel_coords : {<<0, 0, 0>>, <<0, 0, MaxDim - 1>>, <<MaxDim, MaxDim - 1, -1>>},
            selected_class : ClassFilters] : sh \in Shapes3(1)}

\* the rendering of get_slice
CallRenderSlice ==
    /\ call.fn = "render_slice" /\ ret = NoRet
    /\ ret' = SliceFigure(call.slice_img, call.slice_pred, call.selected_class)
    /\ UNCHANGED <<call, sessionVars>>

\* one pass of the frame loop of get_gif
CallSweepFrame ==
    /\ call.fn = "sweep_frame" /\ ret = NoRet
    /\ ret' = LET frame == SweepFrame(call.img, call.pred_vol, call.plane,
                                       call.selected_class, call.idx)
              IN  IF frame.err # "none" THEN [err |-> frame.err]
                  ELSE [err |-> "none", figs |-> <<frame.fig>>,
                        pair |-> SweepPair(call.img, call.pred_vol, call.plane, call.idx)]
    /\ UNCHANGED <<call, sessionVars>>

\* the rendering of get_three_views
CallRenderThreeViews ==
    /\ call.fn = "render_three_views" /\ ret = NoRet
    /\ ret' = LET drawn == ThreeViewFigures(call.img, call.pred_vol, call.voxel_coords,
                                            call.selected_class)
              IN  IF drawn.err # "none" THEN [err |-> drawn.err]
                  ELSE [err |-> "none", figs |-> drawn.figs]
    /\ UNCHANGED <<call, sessionVars>>

\* intensities of the slices given to normalize_image_slice
Intensities == {NaN, -2, 0, 1, 3, 255, 1000}

\* all slices of one row of three pixels
NormalizeCalls ==
    [fn : {"normalize_image_slice"},
     slice_data : {[shape |-> <<1, 3>>, data |-> d] :
                      d \in [Idx2(<<1, 3>>) -> Intensities]}]

CallNormalizeImageSlice ==
    /\ call.fn = "normalize_image_slice" /\ ret = NoRet
    /\ ret' = [err |-> "none", slice |-> NormalizeImageSlice(call.slice_data)]
    /\ UNCHANGED <<call, sessionVars>>

InitOverlay ==
    /\ SessionInit
    /\ call \in FilterCalls \cup RenderSliceCalls \cup SweepFrameCalls
                  \cup RenderThreeViewsCalls \cup NormalizeCalls
    /\ ret = NoRet
NextOverlay ==
    CallFilterPredictionByClass \/ CallRenderSlice \/ CallSweepFrame
      \/ CallRenderThreeViews \/ CallNormalizeImageSlice
SpecOverlay == InitOverlay /\ [][NextOverlay]_vars

----------------------------------------------------------------------------
(* Claims about the overlay renderer (SpecOverlay)                         *)

FilterReturned == call.fn = "filter_prediction_by_class" /\ ret # NoRet
LabelNames == <<"1", "2", "3">>

\* C11: filter_prediction_by_class returns an all-zero slice for "None", the
\* input slice unchanged for "All", and for a label c a slice of the same shape
\* that is c exactly where the input is c and 0 everywhere else
C11_FilterByClass ==
    FilterReturned =>
        /\ call.selected_class = "None" =>
              /\ ret.err = "none"
              /\ ret.slice.shape = call.pred_slice.shape
              /\ DOMAIN ret.slice.data = Idx2(call.pred_slice.shape)
              /\ \A t \in DOMAIN ret.slice.data : ret.slice.data[t] = 0
        /\ call.selected_class = "All" =>
              ret.err = "none" /\ ret.slice = call.pred_slice
        /\ \A c \in 1..3 :
              call.selected_class = LabelNames[c] =>
                /\ ret.err = "none"
                /\ ret.slice.shape = call.pred_slice.shape
                /\ DOMAIN ret.slice.data = Idx2(call.pred_slice.shape)
                /\ \A t \in DOMAIN ret.slice.data :
                      ret.slice.data[t] = IF call.pred_slice.data[t] = c THEN c ELSE 0

\* label 2 was selected in a slice that holds label 2 and other tumor labels
C11_Witness ==
    /\ FilterReturned /\ ret.err = "none"
    /\ call.selected_class = "2"
    /\ \E t, u \in DOMAIN call.pred_slice.data :
          /\ call.pred_slice.data[t] = 2 /\ ret.slice.data[t] = 2
          /\ call.pred_slice.data[u] = 3 /\ ret.slice.data[u] = 0

----------------------------------------------------------------------------
(* Specification of the metrics engine: utils/metrics_helpers.py applied   *)
(* to drawn prediction volumes and voxel sizes                             *)

\* the volumes get_prediction_volume returns for the test model outputs; two
\* reference shapes have a voxel count that is no divisor of 10000
CanonicalVolumes ==
    {r.vol : r \in {x \in {NormalizePrediction(raw, ref) :
                                raw \in TestRaws,
                                ref \in Shapes3(0) \cup {<<3, 1, 1>>, <<3, 1, 2>>}} :
                        x.err = "none"}}

\* label volumes that hold a value no prediction has
OtherVolumes ==
    {[shape |-> sh, data |-> [t \in Idx3(sh) |-> (1 + t[1] + 2 * t[2] + 3 * t[3]) % 5]] :
        sh \in Shapes3(1)}

\* voxel volumes in mm3: 1, 3/2 and 1/8
VoxelVolumes == {<<1, 1>>, <<3, 2>>, <<1, 8>>}

MetricsCalls ==
    [fn : {"calculate_metrics"}, pred_vol : CanonicalVolumes, canonical : {TRUE},
     voxel_volume_mm3 : VoxelVolumes]
      \cup [fn : {"calculate_metrics"}, pred_vol : OtherVolumes, canonical : {FALSE},
            voxel_volume_mm3 : VoxelVolumes]

\* lines 485-486 of get_analysis
CallCalculateMetrics ==
    /\ call.fn = "calculate_metrics" /\ ret = NoRet
    /\ ret' = [err |-> "none",
               by_class |-> CalculateClassMetrics(call.pred_vol, call.voxel_volume_mm3),
               total_tumor |-> CalculateTotalTumorMetrics(call.pred_vol,
                                                          call.voxel_volume_mm3)]
    /\ UNCHANGED <<call, sessionVars>>

\* per-class tables with any set of keys among 1..4
ClassTables == {[k \in K |-> Metrics(k, 8, <<1, 1>>)] : K \in SUBSET {1, 2, 3, 4}}

\* filter values a client may send: the known ones, integers in several
\* spellings, and strings that are no integer
SelectedClasses ==
    {"All", "None", "0", "1", "2", "3", "4", "-1", "03", " 2 ", "2.0", "abc", ""}

SelectedCalls ==
    [fn : {"get_selected_class_metrics"}, class_metrics : ClassTables,
     selected_class : SelectedClasses]

CallGetSelectedClassMetrics ==
    /\ call.fn = "get_selected_class_metrics" /\ ret = NoRet
    /\ ret' = [err |-> "none",
               value |-> GetSelectedClassMetrics(call.class_metrics, call.selected_class)]
    /\ UNCHANGED <<call, sessionVars>>

InitMetrics == SessionInit /\ call \in MetricsCalls \cup SelectedCalls /\ ret = NoRet
NextMetrics == CallCalculateMetrics \/ CallGetSelectedClassMetrics
SpecMetrics == InitMetrics /\ [][NextMetrics]_vars

----------------------------------------------------------------------------
(* Claims about the metrics engine (SpecMetrics)                           *)

MetricsReturned == call.fn = "calculate_metrics" /\ ret # NoRet
CountOf(vol, label) == Cardinality({t \in DOMAIN vol.data : vol.data[t] = label})

\* C12: for every canonical prediction volume the voxel counts of the classes
\* 1, 2 and 3 add up to the voxel count of the total tumor metrics
C12_ClassCountsAddUp ==
    (MetricsReturned /\ call.canonical) =>
        ret.by_class[1].voxel_count + ret.by_class[2].voxel_count
            + ret.by_class[3].voxel_count = ret.total_tumor.voxel_count

\* a canonical volume that holds all three tumor labels and background
C12_Witness ==
    /\ MetricsReturned /\ call.canonical
    /\ \A c \in 1..3 : ret.by_class[c].voxel_count > 0
    /\ CountOf(call.pred_vol, 0) > 0
    /\ ret.total_tumor.voxel_count
         = Cardinality(DOMAIN call.pred_vol.data) - CountOf(call.pred_vol, 0)

\* h hundredths is the quotient n/d (d > 0) rounded to two decimals
IsRounded2(h, n, d) == 2 * Abs(h * d - 100 * n) <= d

\* C13 (as amended): for each class id in {1,2,3} calculate_class_metrics reports
\* voxel_count equal to the number of voxels with that label, and volume_mm3,
\* volume_cm3 and percentage equal to voxel_count * voxel_volume_mm3, to
\* voxel_count * voxel_volume_mm3 / 1000 and to voxel_count / total * 100, each
\* rounded to two decimals; the percentage is 0 when the volume has no voxel
C13_RoundedMetrics ==
    MetricsReturned =>
        \A c \in 1..3 :
            LET m == ret.by_class[c]
                total == Cardinality(DOMAIN call.pred_vol.data)
                num == call.voxel_volume_mm3[1]
                den == call.voxel_volume_mm3[2]
            IN  /\ DOMAIN ret.by_class = {1, 2, 3}
                /\ m.voxel_count = CountOf(call.pred_vol, c)
                /\ IsRounded2(m.volume_mm3, m.voxel_count * num, den)
                /\ IsRounded2(m.volume_cm3, m.voxel_count * num, 1000 * den)
                /\ total > 0 => IsRounded2(m.percentage, 100 * m.voxel_count, total)
                /\ total = 0 => m.percentage = 0

\* a class whose three values are all rounded: none of them is the exact quotient
C13_Witness ==
    /\ MetricsReturned
    /\ LET m == ret.by_class[2]
           total == Cardinality(DOMAIN call.pred_vol.data)
           num == call.voxel_volume_mm3[1]
           den == call.voxel_volume_mm3[2]
       IN  /\ m.voxel_count > 0
           /\ m.volume_mm3 * den # 100 * m.voxel_count * num
           /\ m.volume_cm3 * 1000 * den # 100 * m.voxel_count * num
           /\ m.percentage * total # 100 * 100 * m.voxel_count

\* C13 (as claimed): volume_mm3 is exactly voxel_count * voxel_volume_mm3,
\* volume_cm3 exactly volume_mm3 / 1000 and percentage exactly
\* voxel_count / total * 100, or 0 when the volume has no voxel
C13_ExactMetrics ==
    MetricsReturned =>
        \A c \in 1..3 :
            LET m == ret.by_class[c]
                total == Cardinality(DOMAIN call.pred_vol.data)
                num == call.voxel_volume_mm3[1]
                den == call.voxel_volume_mm3[2]
            IN  /\ m.voxel_count = CountOf(call.pred_vol, c)
                /\ m.volume_mm3 * den = 100 * m.voxel_count * num
                /\ m.volume_cm3 * 1000 = m.volume_mm3
                /\ total > 0 => m.percentage * total = 100 * 100 * m.voxel_count
                /\ total = 0 => m.percentage = 0

SelectedReturned == call.fn = "get_selected_class_metrics" /\ ret # NoRet

\* the test strings that spell the integer k
Numerals(k) ==
    CASE k = 2 -> {"2", " 2 "} [] k = 3 -> {"3", "03"} [] k = 1 -> {"1"}
      [] k = 4 -> {"4"} [] k = 0 -> {"0"} [] k = -1 -> {"-1"}

\* the key of the table the filter value names, if it names one
NamedKeys(class_metrics, selected_class) ==
    {k \in DOMAIN class_metrics : selected_class \in Numerals(k)}

\* C14: get_selected_class_metrics returns None for "All", "None" and "0" and
\* for every class id that is no key of the per-class table, and the table entry
\* of the class otherwise; it never raises and never makes up an entry
C14_SelectedClassMetrics ==
    SelectedReturned =>
        LET keys == NamedKeys(call.class_metrics, call.selected_class)
        IN  /\ ret.err = "none"
            /\ call.selected_class \in {"All", "None", "0"} => ret.value = NoMetrics
            /\ keys = {} => ret.value = NoMetrics
            /\ \A k \in keys : ret.value = call.class_metrics[k]
            /\ \/ ret.value = NoMetrics
               \/ \E k \in DOMAIN call.class_metrics : ret.value = call.class_metrics[k]

\* class 3 was selected in a table that has other classes but not class 3
C14_Witness ==
    /\ SelectedReturned
    /\ call.selected_class = "3"
    /\ 3 \notin DOMAIN call.class_metrics
    /\ 2 \in DOMAIN call.class_metrics
    /\ ret.value = NoMetrics

----------------------------------------------------------------------------
(* Specification of the sweep driver: get_gif_animation_params and the     *)
(* body of get_gif, applied to drawn volumes                               *)

\* plane arguments: the three names and strings that are none of them
PlaneValues == Planes \cup {"Oblique", "axial", ""}

AnimationParamsCalls ==
    [fn : {"get_gif_animation_params"}, plane : PlaneValues, num_slices : 0..MaxSlices]

\* extract_slice_by_plane on every plane argument
PlaneCalls ==
    [fn : {"extract_slice_by_plane"}, img : {TestImage(sh) : sh \in Shapes3(1)},
     pred_vol : {TestLabels(sh) : sh \in Shapes3(1)}, plane : PlaneValues,
     slice_idx : SliceIndexes]

\* create_slicer_function on every plane argument, and an index for its slicer
SlicerCalls ==
    UNION {[fn : {"create_slicer_function"}, img : {TestImage(sh)},
            pred_vol : {TestLabels(sh)}, plane : {plane},
            i : 0..(NumSlices(TestImage(sh), plane) - 1)] :
           sh \in Shapes3(1), plane \in PlaneValues}

\* numbers of slices around the values where a stride changes, 0 and the 155
\* of the data set
SweepLengths == {0, 1, 2, 59, 60, 119, 120, 155, 199, 200}

\* volumes of one row of voxels along each axis
SweepShapes ==
    {<<n, 1, 1>> : n \in SweepLengths} \cup {<<1, n, 1>> : n \in SweepLengths}
      \cup {<<1, 1, n>> : n \in SweepLengths}

\* the prediction has the shape of the image, as get_prediction_volume returns it
SweepCalls ==
    UNION {[fn : {"get_gif"}, img : {TestImage(sh)}, pred_vol : {TestLabels(sh)},
            plane : Planes, selected_class : {"All", "None", "2", "abc"}] :
           sh \in SweepShapes}

CallGetGifAnimationParams ==
    /\ call.fn = "get_gif_animation_params" /\ ret = NoRet
    /\ ret' = [err |-> "none",
               params |-> GetGifAnimationParams(call.plane, call.num_slices)]
    /\ UNCHANGED <<call, sessionVars>>

\* create_slicer_function and one call of the slicer it returns
CallCreateSlicerFunction ==
    /\ call.fn = "create_slicer_function" /\ ret = NoRet
    /\ ret' = [err |-> "none", num_slices |-> NumSlices(call.img, call.plane),
               pair |-> Slicer(call.img, call.pred_vol, call.plane, call.i)]
    /\ UNCHANGED <<call, sessionVars>>

\* lines 526-565 of get_gif
CallSweep ==
    /\ call.fn = "get_gif" /\ ret = NoRet
    /\ ret' = [err |-> "none",
               out |-> GifOut(call.img, call.pred_vol, call.plane, call.selected_class)]
    /\ UNCHANGED <<call, sessionVars>>

InitSweep ==
    /\ SessionInit
    /\ call \in AnimationParamsCalls \cup SweepCalls \cup PlaneCalls \cup SlicerCalls
    /\ ret = NoRet
NextSweep ==
    \/ CallGetGifAnimationParams
    \/ CallSweep
    \/ CallExtractSliceByPlane
    \/ CallCreateSlicerFunction
SpecSweep == InitSweep /\ [][NextSweep]_vars

----------------------------------------------------------------------------
(* Claims about the sweep driver (SpecSweep)                               *)

ParamsReturned == call.fn = "get_gif_animation_params" /\ ret # NoRet
SweepReturned == call.fn = "get_gif" /\ ret # NoRet

\* slices per stride step: 60 for Axial, 100 for Sagittal and Coronal
SlicesPerStep(plane) == IF plane = "Axial" THEN 60 ELSE 100

\* C15: for every num_slices >= 0 get_gif_animation_params returns stride
\* max(1, num_slices // 60) and frame rate 15 for Axial, stride
\* max(1, num_slices // 100) and frame rate 13 for Sagittal and Coronal; the
\* stride is at least 1
C15_AnimationParams ==
    ParamsReturned =>
        LET n == call.num_slices
            per == SlicesPerStep(call.plane)
            stride == ret.params.stride
        IN  /\ ret.params.fps = IF call.plane = "Axial" THEN 15 ELSE 13
            /\ stride >= 1
            /\ n < per => stride = 1
            /\ n >= per => per * stride <= n /\ n < per * (stride + 1)

\* 155 axial slices: stride 2 at 15 frames per second
C15_Witness ==
    /\ ParamsReturned
    /\ call.plane = "Axial" /\ call.num_slices = 155
    /\ ret.params.stride = 2 /\ ret.params.fps = 15

\* the stride of a sweep over n slices
StrideOf(plane, n) ==
    IF n < SlicesPerStep(plane) THEN 1 ELSE n \div SlicesPerStep(plane)

\* the sweep can render: the filter is a known one and no slice is empty
Renderable == call.selected_class \in {"All", "None", "2"} /\ ~IsEmpty(call.img)

\* C16: a sweep over a volume with num_slices slices on the plane's axis
\* produces exactly ceil(num_slices / stride) frames, one per slice index
\* 0, stride, 2*stride, ... below num_slices, in ascending order
C16_SweepFrames ==
    (SweepReturned /\ Renderable) =>
        LET n == NumSlices(call.img, call.plane)
            stride == StrideOf(call.plane, n)
        IN  /\ ret.out.kind = "gif"
            /\ Len(ret.out.frames) * stride >= n
            /\ (Len(ret.out.frames) - 1) * stride < n
            /\ \A k \in 1..Len(ret.out.frames) : ret.out.frames[k] = (k - 1) * stride

\* 155 axial slices give 78 frames, the last one of slice 154
C16_Witness ==
    /\ SweepReturned /\ Renderable
    /\ call.plane = "Axial" /\ call.img.shape[3] = 155
    /\ ret.out.kind = "gif"
    /\ Len(ret.out.frames) = 78 /\ ret.out.frames[78] = 154

\* C17: when a sweep samples zero frames (num_slices is 0) get_gif reports an
\* explicit error, and no animation it returns is empty
C17_EmptySweepIsError ==
    SweepReturned =>
        /\ NumSlices(call.img, call.plane) = 0 =>
              ret.out.kind = "error" /\ ret.out.error = "No frames generated"
        /\ ret.out.kind = "gif" =>
              /\ Len(ret.out.frames) >= 1
              /\ Len(ret.out.overlays) = Len(ret.out.frames)

\* a sweep over a volume without slices on the plane's axis
C17_Witness ==
    /\ SweepReturned
    /\ NumSlices(call.img, call.plane) = 0
    /\ ret.out.kind = "error" /\ ret.out.error = "No frames generated"

----------------------------------------------------------------------------
(* Claims about the three rendering paths (SpecOverlay)                    *)

RenderPaths == {"render_slice", "sweep_frame", "render_three_views"}
Rendered == call.fn \in RenderPaths /\ ret # NoRet
HasLabel(slice) == \E t \in DOMAIN slice.data : slice.data[t] # 0

\* C18: in every rendering path the overlay is drawn if and only if the
\* class-filtered prediction slice holds a non-zero label; for an all-background
\* slice, and for every slice filtered with "None", only the base image is
\* rendered and no error is raised
C18_OverlayIffLabel ==
    Rendered =>
        /\ call.selected_class \in {"All", "None", "0", "1", "2", "3"} => ret.err = "none"
        /\ ret.err = "none" =>
              \A k \in 1..Len(ret.figs) :
                  /\ ret.figs[k].overlay <=> HasLabel(ret.figs[k].mask)
                  /\ ~ret.figs[k].overlay => ret.figs[k].layer = << >>
                  /\ call.selected_class = "None" => ~ret.figs[k].overlay

\* three panels of one request: one with an overlay, one all background
C18_Witness ==
    /\ Rendered /\ call.fn = "render_three_views" /\ ret.err = "none"
    /\ call.selected_class = "All"
    /\ \E j, k \in 1..3 :
          /\ ret.figs[j].overlay /\ HasLabel(ret.figs[j].mask)
          /\ ~ret.figs[k].overlay /\ ~HasLabel(ret.figs[k].mask)

\* the colors of the classes 1, 2 and 3
ClassColors == <<"#f6a9c4", "#c58b57", "#8abed8">>

\* pixel t of the figure is left unpainted by the overlay
Transparent(fig, t) == ~fig.overlay \/ fig.layer[t].alpha = 0

\* C19: every rendering path (single slice, sweep, three-view) leaves label 0
\* transparent and paints the labels 1, 2 and 3 with the same three fixed,
\* pairwise different colors
C19_FixedClassColors ==
    /\ \A c, d \in 1..3 : c # d => ClassColors[c] # ClassColors[d]
    /\ (Rendered /\ ret.err = "none") =>
          \A k \in 1..Len(ret.figs) :
              \A t \in DOMAIN ret.figs[k].mask.data :
                  LET label == ret.figs[k].mask.data[t]
                  IN  /\ label = 0 => Transparent(ret.figs[k], t)
                      /\ label \in 1..3 =>
                            /\ ~Transparent(ret.figs[k], t)
                            /\ ret.figs[k].layer[t].color = ClassColors[label]

\* a sweep frame that shows background and the three classes
C19_Witness ==
    /\ Rendered /\ call.fn = "sweep_frame" /\ ret.err = "none"
    /\ \A label \in 0..3 :
          \E t \in DOMAIN ret.figs[1].mask.data : ret.figs[1].mask.data[t] = label
    /\ \A t \in DOMAIN ret.figs[1].mask.data :
          ret.figs[1].mask.data[t] = 3 => ret.figs[1].layer[t].color = "#8abed8"

\* C20: the overlay is composited at alpha 0.75 in single-slice and three-view
\* rendering and at a strictly lower alpha in sweep frames
C20_SweepAlphaLower ==
    (Rendered /\ ret.err = "none") =>
        \A k \in 1..Len(ret.figs) :
            \A t \in DOMAIN ret.figs[k].mask.data :
                ~Transparent(ret.figs[k], t) =>
                    IF call.fn = "sweep_frame"
                    THEN ret.figs[k].layer[t].alpha < 75
                    ELSE ret.figs[k].layer[t].alpha = 75

----------------------------------------------------------------------------
(* Claims about normalize_image_slice (SpecOverlay)                        *)

NormalizeReturned == call.fn = "normalize_image_slice" /\ ret # NoRet

\* the intensity of pixel t after NaN is replaced by 0
Intensity(slice, t) == IF slice.data[t] = NaN THEN 0 ELSE slice.data[t]

\* C21: for every slice with at least two distinct intensities (NaN counted
\* as 0) the minimum intensity maps to 0 and the maximum intensity to 255, and
\* every output value lies in [0, 255]
C21_FullRange ==
    NormalizeReturned =>
        LET in == call.slice_data
            px == DOMAIN in.data
        IN  /\ \A t \in px : ret.slice.data[t] \in 0..255
            /\ (\E t, u \in px : Intensity(in, t) # Intensity(in, u)) =>
                  \A t \in px :
                      /\ (\A u \in px : Intensity(in, t) <= Intensity(in, u)) =>
                            ret.slice.data[t] = 0
                      /\ (\A u \in px : Intensity(in, t) >= Intensity(in, u)) =>
                            ret.slice.data[t] = 255

----------------------------------------------------------------------------
(* Claims about missing volume files (Spec)                                *)

Handlers == {"get_slice", "get_analysis", "get_gif", "get_three_views"}

----------------------------------------------------------------------------
(* Requests in flight at the same time: the steps of get_prediction_volume *)
(* and predict_btn_click on the one SESSION_STATE of the process           *)

\* the request threads of the server
Threads == {"t1", "t2"}

\* a thread between two requests
Idle == [pc |-> "idle", patient |-> NoPatient, cur |-> NoPatient,
         predicted |-> RawNone(NoPatient)]

\* no call of get_prediction_volume returned yet
NoAnswer == [patient |-> NoPatient, src |-> NoPatient,
             result |-> [err |-> "pending", msg |-> "", vol |-> NoVol]]

\* thread t moves to r; history: steps of two calls have come between each other
Step(t, r) ==
    call' = [of |-> [call.of EXCEPT ![t] = r],
             interleaved |-> \/ call.interleaved
                             \/ \E u \in Threads \ {t} : call.of[u].pc # "idle"]

\* a handler calls get_prediction_volume(patient_path, reference_shape)
BeginRequest(t) ==
    /\ call.of[t].pc = "idle"
    /\ \E p \in Patients : Step(t, [Idle EXCEPT !.pc = "read", !.patient = p])
    /\ ret' = [ret EXCEPT ![t] = NoAnswer]
    /\ UNCHANGED sessionVars

\* line 315 and the test of line 316
ReadCurrentPatient(t) ==
    /\ call.of[t].pc = "read"
    /\ Step(t, [call.of[t] EXCEPT !.cur = current_patient,
                                  !.pc = IF current_patient # call.of[t].patient
                                         THEN "token" ELSE "test"])
    /\ UNCHANGED <<sessionVars, ret>>

\* line 317
UpdateToken(t) ==
    /\ call.of[t].pc = "token"
    /\ LET s == PatientHasChangedUpdateToken(Session)
       IN  /\ patient_has_changed' = s.patient_has_changed
           /\ pred_can_be_displayed' = s.pred_can_be_displayed
           /\ pred_gen_for_this_patient' = s.pred_gen_for_this_patient
    /\ Step(t, [call.of[t] EXCEPT !.pc = "write"])
    /\ UNCHANGED <<current_patient, pred_seg, run, trail, resp, users, ret>>

\* line 318
WriteCurrentPatient(t) ==
    /\ call.of[t].pc = "write"
    /\ current_patient' = call.of[t].patient
    /\ Step(t, [call.of[t] EXCEPT !.pc = "test"])
    /\ UNCHANGED <<pred_gen_for_this_patient, pred_can_be_displayed, patient_has_changed,
                   pred_seg, run, trail, resp, users, ret>>

\* predict_btn_click, line 29
TestFlag(t) ==
    /\ call.of[t].pc = "test"
    /\ Step(t, [call.of[t] EXCEPT !.pc = IF ~pred_gen_for_this_patient
                                         THEN "predict" ELSE "fetch"])
    /\ UNCHANGED <<sessionVars, ret>>

\* predict_btn_click, line 31: the model runs on the volumes of the thread's patient;
\* an exception ends the call
Predict(t) ==
    /\ call.of[t].pc = "predict"
    /\ \E outcome \in ModelOutcomes(call.of[t].patient) :
          IF PredictSegmentationRaises(call.of[t].patient) \/ outcome.kind = "raise"
          THEN /\ Step(t, Idle)
               /\ ret' = [ret EXCEPT ![t] =
                             [patient |-> call.of[t].patient, src |-> call.of[t].patient,
                              result |-> [err |-> "Exception", msg |-> "prediction raised",
                                          vol |-> NoVol]]]
          ELSE /\ Step(t, [call.of[t] EXCEPT !.pc = "store", !.predicted = outcome])
               /\ UNCHANGED ret
    /\ UNCHANGED sessionVars

\* predict_btn_click, lines 34-40
Store(t) ==
    /\ call.of[t].pc = "store"
    /\ pred_seg' = call.of[t].predicted
    /\ pred_can_be_displayed' = TRUE
    /\ pred_gen_for_this_patient' = TRUE
    /\ Step(t, [call.of[t] EXCEPT !.pc = "fetch"])
    /\ UNCHANGED <<current_patient, patient_has_changed, run, trail, resp, users, ret>>

\* predict_btn_click, line 42, and lines 320-342 on what it returned
Fetch(t) ==
    /\ call.of[t].pc = "fetch"
    /\ ret' = [ret EXCEPT ![t] =
                  [patient |-> call.of[t].patient, src |-> pred_seg.of,
                   result |-> PredictionTable[pred_seg]
                                             [ImageShape(call.of[t].patient, "flair")]]]
    /\ Step(t, Idle)
    /\ UNCHANGED sessionVars

InitThreads ==
    /\ SessionInit
    /\ call = [of |-> [t \in Threads |-> Idle], interleaved |-> FALSE]
    /\ ret = [t \in Threads |-> NoAnswer]

NextThreads ==
    \E t \in Threads :
        \/ BeginRequest(t)
        \/ ReadCurrentPatient(t)
        \/ UpdateToken(t)
        \/ WriteCurrentPatient(t)
        \/ TestFlag(t)
        \/ Predict(t)
        \/ Store(t)
        \/ Fetch(t)

SpecThreads == InitThreads /\ [][NextThreads]_vars

----------------------------------------------------------------------------
(* Claims about requests in flight at the same time (SpecThreads)          *)

\* thread t got the volume of another patient than the one it asked for
CrossAnswer(t) ==
    /\ ret[t].result.err = "none"
    /\ ret[t].src \in Patients \ {ret[t].patient}

\* C23: a call of get_prediction_volume for one patient can return the prediction
\* computed for the other patient (the witness), and a call returns another
\* patient's prediction only after the steps of two calls have come between each
\* other: calls that run one after the other never do
C23_CrossAnswerNeedsInterleaving ==
    \A t \in Threads : ret[t].src # ret[t].patient => call.interleaved

\* a request for one patient answered with the other patient's prediction
C23_Witness ==
    \E t \in Threads : CrossAnswer(t)

----------------------------------------------------------------------------
(* Claims about the slices of a sweep (SpecOverlay)                        *)

SweepFrameReturned == call.fn = "sweep_frame" /\ ret # NoRet

\* C24: for every plane and every index of a sweep, the image slice and the
\* prediction slice of the rendered frame are the ones extract_slice_by_plane
\* returns for the same volumes, plane and index
C24_SweepPairIsExtractedPair ==
    SweepFrameReturned /\ ret.err = "none" =>
        LET got == ExtractSliceByPlane(call.img, call.pred_vol, call.plane, call.idx)
        IN  /\ got.err = "none"
            /\ ret.pair.slice_img = got.slice_img
            /\ ret.pair.slice_pred = got.slice_pred

\* a rendered Sagittal frame, not the first, whose rotation moved voxels
C24_Witness ==
    /\ SweepFrameReturned /\ ret.err = "none"
    /\ call.plane = "Sagittal" /\ call.idx > 0
    /\ ret.pair.slice_img # TakeAxis(call.img, 1, call.idx)
    /\ \E t \in DOMAIN ret.pair.slice_pred.data : ret.pair.slice_pred.data[t] # 0

----------------------------------------------------------------------------
(* Claims about the labels of the prediction volume (SpecPrediction)       *)

\* the labels of layer z of a label volume
LayerLabels(vol, z) == {vol.data[t] : t \in {u \in DOMAIN vol.data : u[3] = z}}

\* the label volume before its layers are resized: lines 327-329
SourceVolume(pred_raw) == ArgMaxMoveAxis(ResizePredictedSeg(pred_raw))

\* C25: every voxel of the volume get_prediction_volume returns is a label in
\* 0..3; when the layers are resized to the reference shape, each output layer
\* holds only labels of the same layer of the source, and the layers from the
\* smaller of the two depths on are all background (0)
C25_LabelsPreserved ==
    (PredictionReturned /\ ret.err = "none") =>
        LET source == SourceVolume(call.pred_raw)
            limit == Min(source.shape[3], call.reference_shape[3])
        IN  /\ \A t \in DOMAIN ret.vol.data : ret.vol.data[t] \in 0..3
            /\ source.shape # call.reference_shape =>
                 \A z \in 0..(call.reference_shape[3] - 1) :
                     IF z < limit
                     THEN LayerLabels(ret.vol, z) \subseteq LayerLabels(source, z)
                     ELSE LayerLabels(ret.vol, z) \subseteq {0}

\* a source of one layer resized into a larger, deeper reference volume: its first
\* layer carries a tumour label and the layer after it is background
C25_Witness ==
    /\ PredictionReturned /\ ret.err = "none"
    /\ SourceVolume(call.pred_raw).shape[3] = 1
    /\ call.reference_shape[3] = 2
    /\ call.reference_shape[1] # ResizedHW
    /\ LayerLabels(ret.vol, 0) \ {0} # {}
    /\ LayerLabels(ret.vol, 1) = {0}

----------------------------------------------------------------------------
(* Claims about the cache under serialized requests (Spec)                 *)

\* C26: with the requests handled one after the other, after any sequence of
\* requests for any patients, also ones whose inference raises, a prediction
\* marked as generated was computed from the data of the active patient, the
\* active patient is the one of the last call of get_prediction_volume, and a
\* call that ends without an exception of the inference works on the prediction
\* of the patient it was made for
C26_CacheIsOfActivePatient ==
    /\ pred_gen_for_this_patient =>
          current_patient \in Patients /\ pred_seg.of = current_patient
    /\ Called => current_patient = resp.patient
    /\ (Called /\ ~resp.raised) =>
          /\ pred_gen_for_this_patient
          /\ resp.src = resp.patient

\* the inference raised for a new patient while the prediction of the patient
\* before was cached: that prediction is still stored, but no longer marked
C26_Witness ==
    /\ Called /\ resp.raised /\ resp.switched /\ resp.cached
    /\ pred_seg.of \in Patients \ {current_patient}
    /\ ~pred_gen_for_this_patient

----------------------------------------------------------------------------
(* Claims about a cached prediction that fails validation (Spec)           *)

\* the error get_prediction_volume raises for a raw prediction failing validation
ValidationError(raw) ==
    IF IsNone(raw) THEN "Failed to generate prediction" ELSE "Invalid prediction shape"

\* C27: a raw prediction the model returns that fails validation (None, wrong rank
\* or wrong channel count) is cached and marked as generated all the same; a later
\* call of get_prediction_volume for the same patient fails with the error of that
\* value and does not call the model again, as long as no call for another
\* patient has come
C27_InvalidPredictionStaysCached ==
    /\ (Called /\ resp.invoked /\ ~resp.raised /\ resp.status = 500
          /\ resp.error \in {"Failed to generate prediction", "Invalid prediction shape"}) =>
          /\ pred_gen_for_this_patient
          /\ pred_seg.of = resp.patient
          /\ ~IsValidRaw(pred_seg)
          /\ resp.error = ValidationError(pred_seg)
    /\ (Called /\ ~resp.switched /\ resp.cached /\ ~IsValidRaw(pred_seg)) =>
          /\ ~resp.invoked
          /\ pred_gen_for_this_patient
          /\ resp.status = 500 /\ resp.vol = NoVol
          /\ resp.error = ValidationError(pred_seg)

\* a later request for the same patient, answered from a cached None without a
\* call of the model
C27_Witness ==
    /\ Called /\ ~resp.switched /\ resp.cached /\ ~resp.invoked
    /\ IsNone(pred_seg) /\ pred_seg.of = resp.patient
    /\ resp.status = 500 /\ resp.error = "Failed to generate prediction"

----------------------------------------------------------------------------
(* Claims about plane arguments that are no plane name (SpecSweep)         *)

PlaneSliceReturned == call.fn = "extract_slice_by_plane" /\ ret # NoRet
SlicerReturned == call.fn = "create_slicer_function" /\ ret # NoRet

\* C28: extract_slice_by_plane and create_slicer_function treat every plane
\* value other than "Axial" and "Sagittal", unknown strings too, as "Coronal"
\* (2nd axis, quarter turn); get_gif_animation_params gives every plane value
\* other than "Axial" the stride max(1, num_slices // 100) and 13 frames per
\* second; none of the three rejects a plane value
C28_OtherPlanesAreCoronal ==
    /\ (PlaneSliceReturned /\ call.plane \notin {"Axial", "Sagittal"}) =>
          LET i == Nearest(call.slice_idx, call.img.shape[2])
              j == Nearest(i, call.pred_vol.shape[2])
              pred == PlaneSlice(call.pred_vol, "Coronal", j)
          IN  /\ ret.err = "none"
              /\ ret.slice_img = PlaneSlice(call.img, "Coronal", i)
              /\ ret.slice_pred =
                    IF pred.shape = ret.slice_img.shape THEN pred
                    ELSE ResizeNearest(pred, ret.slice_img.shape[2],
                                       ret.slice_img.shape[1])
    /\ (SlicerReturned /\ call.plane \notin {"Axial", "Sagittal"}) =>
          /\ ret.err = "none"
          /\ ret.num_slices = call.img.shape[2]
          /\ ret.pair.err = "none"
          /\ ret.pair.slice_img = PlaneSlice(call.img, "Coronal", call.i)
          /\ ret.pair.slice_pred = PlaneSlice(call.pred_vol, "Coronal", call.i)
    /\ (ParamsReturned /\ call.plane # "Axial") =>
          /\ ret.err = "none"
          /\ ret.params.fps = 13
          /\ ret.params.stride >= 1
          /\ call.num_slices < 100 => ret.params.stride = 1
          /\ call.num_slices >= 100 =>
                /\ 100 * ret.params.stride <= call.num_slices
                /\ call.num_slices < 100 * (ret.params.stride + 1)

\* the slicer made for the plane "Oblique" returned the second Coronal slice of a
\* volume whose axes have different lengths
C28_Witness ==
    /\ SlicerReturned /\ call.plane = "Oblique" /\ call.i = 1
    /\ call.img.shape[1] # call.img.shape[2]
    /\ ret.num_slices = call.img.shape[2]
    /\ ret.pair.slice_img = PlaneSlice(call.img, "Coronal", 1)

----------------------------------------------------------------------------
(* Claims about the number of frames of a sweep (SpecSweep)                *)

\* the most frames a sweep of the plane has
MostFrames(plane) == IF plane = "Axial" THEN 119 ELSE 199

\* C29: for every num_slices >= 1 a sweep has at least 1 frame and at most 119
\* frames on the Axial plane, at most 199 on the Sagittal and Coronal planes,
\* however many slices there are: both for range(0, num_slices, stride) with the
\* stride get_gif_animation_params returns and for the frames get_gif renders
C29_BoundedFrames ==
    /\ (ParamsReturned /\ call.num_slices >= 1) =>
          LET frames == Len(SweepIndexes(call.num_slices, ret.params.stride))
          IN  frames >= 1 /\ frames <= MostFrames(call.plane)
    /\ (SweepReturned /\ Renderable /\ NumSlices(call.img, call.plane) >= 1) =>
          /\ ret.out.kind = "gif"
          /\ Len(ret.out.frames) >= 1
          /\ Len(ret.out.frames) <= MostFrames(call.plane)

\* sweeps with the most frames: 119 axial slices and 199 sagittal slices, one
\* frame each
C29_Witness ==
    /\ SweepReturned /\ Renderable
    /\ \/ call.plane = "Axial" /\ call.img.shape[3] = 119 /\ Len(ret.out.frames) = 119
       \/ call.plane = "Sagittal" /\ call.img.shape[1] = 199 /\ Len(ret.out.frames) = 199

----------------------------------------------------------------------------
(* Account registration: signup in app.py and the table of models.User.    *)
(* A text is the sequence of its characters                                *)

\* a JSON null sent for a field
Null == <<"null">>

RECURSIVE LStrip(_)
\* str.lstrip(): whitespace at the start removed
LStrip(text) ==
    IF text # <<>> /\ Head(text) \in {" ", "\t"} THEN LStrip(Tail(text)) ELSE text

RECURSIVE RStrip(_)
\* str.rstrip(): whitespace at the end removed
RStrip(text) ==
    IF text # <<>> /\ text[Len(text)] \in {" ", "\t"}
    THEN RStrip(SubSeq(text, 1, Len(text) - 1)) ELSE text

\* str.strip()
Strip(text) == RStrip(LStrip(text))

\* str.lower() of one character, for the capitals of the test addresses
LowerChar(c) ==
    CASE c = "A" -> "a"
      [] c = "B" -> "b"
      [] c = "X" -> "x"
      [] OTHER -> c

\* str.lower()
Lower(text) == [i \in DOMAIN text |-> LowerChar(text[i])]

\* lines 102-106: the fields of the request body; strip() of a null raises
SignupFields(body) ==
    IF body.email = Null \/ body.fullName = Null \/ body.speciality = Null
    THEN [err |-> "AttributeError"]
    ELSE [err |-> "none",
          email |-> Lower(Strip(body.email)),
          password |-> body.password,
          full_name |-> Strip(body.fullName),
          speciality |-> Strip(body.speciality)]

\* lines 108-116: the validation, "" when the fields pass
SignupRejection(fields) ==
    IF fields.email = <<>> THEN "Email is required"
    ELSE IF fields.password = <<>> \/ fields.password = Null \/ Len(fields.password) < 6
    THEN "Password must be at least 6 characters"
    ELSE IF fields.full_name = <<>> THEN "Full name is required"
    ELSE IF fields.speciality = <<>> THEN "Speciality is required"
    ELSE ""

\* a table without the unique index on email
NoUniqueIndex(rows, email) == FALSE

\* Column(String(255), unique=True): the row to insert has the email of a row
UniqueViolation(rows, email) == \E u \in rows : u.email = email

\* User(email=..., password_hash=..., full_name=..., speciality=...) with the
\* next value of the primary key
NewUser(rows, fields) ==
    [id |-> Cardinality(rows) + 1, email |-> fields.email,
     password_hash |-> <<"hash">> \o fields.password,
     full_name |-> fields.full_name, speciality |-> fields.speciality]

\* no signup answered yet
NoReply == [status |-> 0, error |-> "", body |-> <<>>, registered |-> FALSE]

\* the thread's signup is answered
Reply(t, status, error) ==
    ret' = [ret EXCEPT ![t] = [status |-> status, error |-> error,
                               body |-> call[t].body,
                               registered |-> call[t].registered]]

\* a thread between two signups
NoSignup == [pc |-> "idle", body |-> <<>>, fields |-> [err |-> "none"],
             registered |-> FALSE]

\* request bodies: an address written in three ways, a second address, and one
\* body for each way a field can be missing, blank, null or too short
SignupBodies ==
    LET a == <<"a", "@", "x">>
        ok == [email |-> a, password |-> <<"s", "e", "c", "r", "e", "t">>,
               fullName |-> <<"A", "n", "n">>, speciality |-> <<"E", "N", "T">>]
    IN  {[ok EXCEPT !.email = e] :
            e \in {a, <<" ", "A", "@", "X", " ">>, <<"A", "@", "x">>, <<"b", "@", "x">>,
                   <<>>, <<" ">>, Null}}
          \cup {[ok EXCEPT !.password = w] :
                   w \in {<<>>, Null, <<"s", "e", "c", "r", "e">>, <<" ", " ", " ", " ", " ", " ">>}}
          \cup {[ok EXCEPT !.fullName = n] : n \in {<<>>, <<" ", "\t">>, Null, <<" ", "A", "n", "n">>}}
          \cup {[ok EXCEPT !.speciality = n] : n \in {<<>>, <<" ">>, Null}}

\* lines 102-116: the body is read and validated; history: registered tells
\* whether a row with the address existed when the request arrived
BeginSignup(t) ==
    /\ call[t].pc = "idle"
    /\ \E body \in SignupBodies :
          LET fields == SignupFields(body)
              arrived == [pc |-> "query", body |-> body, fields |-> fields,
                          registered |-> fields.err = "none"
                                         /\ \E u \in users : u.email = fields.email]
          IN  IF fields.err # "none"
              THEN /\ call' = [call EXCEPT ![t] = [arrived EXCEPT !.pc = "idle"]]
                   /\ ret' = [ret EXCEPT ![t] =
                                 [status |-> 500, error |-> "Internal Server Error",
                                  body |-> body, registered |-> FALSE]]
              ELSE IF SignupRejection(fields) # ""
              THEN /\ call' = [call EXCEPT ![t] = [arrived EXCEPT !.pc = "idle"]]
                   /\ ret' = [ret EXCEPT ![t] =
                                 [status |-> 400, error |-> SignupRejection(fields),
                                  body |-> body, registered |-> arrived.registered]]
              ELSE /\ call' = [call EXCEPT ![t] = arrived]
                   /\ ret' = [ret EXCEPT ![t] = NoReply]
    /\ UNCHANGED sessionVars

\* lines 124-127: the query for a row with the address
QueryExisting(t) ==
    /\ call[t].pc = "query"
    /\ IF \E u \in users : u.email = call[t].fields.email
       THEN /\ Reply(t, 409, "Email already registered")
            /\ call' = [call EXCEPT ![t].pc = "idle"]
       ELSE /\ call' = [call EXCEPT ![t].pc = "commit"]
            /\ UNCHANGED ret
    /\ UNCHANGED sessionVars

\* lines 129-148: the row is added and committed; lines 149-155: a commit the
\* table refuses is rolled back and answered with 500
CommitUser(t) ==
    /\ call[t].pc = "commit"
    /\ IF UniqueViolation(users, call[t].fields.email)
       THEN /\ Reply(t, 500, "Failed to create account")
            /\ UNCHANGED users
       ELSE /\ Reply(t, 201, "")
            /\ users' = users \cup {NewUser(users, call[t].fields)}
    /\ call' = [call EXCEPT ![t].pc = "idle"]
    /\ UNCHANGED cacheVars

InitSignup ==
    /\ SessionInit
    /\ call = [t \in Threads |-> NoSignup]
    /\ ret = [t \in Threads |-> NoReply]

NextSignup == \E t \in Threads : BeginSignup(t) \/ QueryExisting(t) \/ CommitUser(t)

SpecSignup == InitSignup /\ [][NextSignup]_vars

----------------------------------------------------------------------------
(* Claims about account registration (SpecSignup)                          *)

\* an address trimmed and lower-cased
NormalizedEmail(email) == Lower(Strip(email))

\* a field of the body is missing or blank
Blank(text) == \A i \in DOMAIN text : text[i] \in {" ", "\t"}

\* the body has no null where a text is expected and fails the validation: no
\* email, a password shorter than 6, no full name or no speciality
RejectedBody(body) ==
    /\ Null \notin {body.email, body.fullName, body.speciality}
    /\ \/ Blank(body.email)
       \/ body.password = Null \/ Len(body.password) < 6
       \/ Blank(body.fullName)
       \/ Blank(body.speciality)

\* C30: after any interleaving of signup requests the table holds at most one
\* row per normalized email (trimmed and lower-cased); a signup that passes
\* validation for an email registered when the request arrived is answered with
\* 409 "Email already registered"; a signup is answered with 400 exactly when
\* validation rejects it; and a step that answers 400 or 409 adds no row: rows
\* are added one at a time, by a signup answered with 201
C30_OneUserPerEmail ==
    /\ [](/\ \A u, v \in users :
                 NormalizedEmail(u.email) = NormalizedEmail(v.email) => u = v
          /\ \A t \in Threads :
                 /\ (ret[t].registered /\ ret[t].status \notin {0, 400}) =>
                        ret[t].status = 409 /\ ret[t].error = "Email already registered"
                 /\ ret[t].status = 409 =>
                        \E u \in users : u.email = NormalizedEmail(ret[t].body.email)
                 /\ ret[t].status = 400 <=> (ret[t].status # 0 /\ RejectedBody(ret[t].body)))
    /\ [][/\ \A t \in Threads :
                 (ret'[t] # ret[t] /\ ret'[t].status \in {400, 409}) => users' = users
          /\ users' # users =>
                 /\ users \subseteq users' /\ Cardinality(users') = Cardinality(users) + 1
                 /\ \E t \in Threads : ret'[t] # ret[t] /\ ret'[t].status = 201]_vars

\* two signups for one address ran at the same time, the table refused the second
\* row; a later signup with the address in capitals and blanks was answered 409
C30_Witness ==
    /\ Cardinality(users) = 1
    /\ \E t, u \in Threads :
          /\ ret[t].status = 409 /\ ret[t].registered
          /\ ret[t].body.email = <<" ", "A", "@", "X", " ">>
          /\ ret[u].status = 500 /\ ret[u].error = "Failed to create account"
====
